---- MODULE Spec2Model ----
(***************************************************************************)
(* Proxy pool with failure cooldown (scraper-worker/proxy.py, identical     *)
(* selection code in microservice/src/scraper/proxy.py) and the paginated    *)
(* search loop that uses it (scraper-worker/scrape.py search_airbnb).        *)
(*                                                                           *)
(* Encoding of Python values:                                                *)
(*   None (proxy url, cursor)            -> 0                                *)
(*   proxy url                           -> 1..n, position in PROXY_URLS     *)
(*   proxy dict {"http": u, "https": u}  -> record [http |-> u, https |-> u] *)
(*   Optional[dict] None                 -> NoneDict                         *)
(*   dict _proxy_cooldown_until          -> function on the set of its keys  *)
(*   time.time()                         -> integer now, advanced by Tick    *)
(***************************************************************************)
EXTENDS Integers, Sequences, FiniteSets, TLC

VARIABLES
    proxies,                \* ProxyManager._proxies
    proxy_cooldown_until,   \* ProxyManager._proxy_cooldown_until
    now,                    \* the clock read by time.time()
    upstream,               \* what the upstream site and the network may answer
    call,                   \* record of the ProxyManager call made by the latest step
    pc,                     \* per run: position in search_airbnb
    max_pages,              \* per run: argument max_pages
    page,                   \* per run: loop variable page
    proxy,                  \* per run: local proxy (a proxy dict)
    headers,                \* per run: local headers; k is the k-th header set
                            \* the run has generated, 0 before the first
    current_cursor,         \* per run: local current_cursor
    total_listing_count,    \* per run: local total_listing_count
    response,               \* per run: body of the response being handled
    mf_now,                 \* per run: local now inside mark_failed
    marks,                  \* per run: the proxy urls it marked failed, in order
    marked_at,              \* per proxy url: clock value of its latest mark_failed
    reqs,                   \* per run: requests issued, in order
    emits,                  \* per run: sink invocations, in order
    slept,                  \* per run: number of inter-page sleeps taken
    attempted,              \* search_listings: local attempted
    resp_state,             \* search_listings: local response is "None", a 2xx
                            \* response ("ok") or a non-2xx one ("bad_status")
    ms_result,              \* search_listings: the dict returned, by its success key
    returned,               \* per run: how the call ended and what it returned
    cancel,                 \* the scheduler's cancellation signal
    fn_in,                  \* arguments of the pure function under evaluation
    fn_out,                 \* its value once evaluated
    filter_request          \* search_worker: the rows of the filter_request table

vars == <<proxies, proxy_cooldown_until, now, upstream, call, pc, max_pages,
          page, proxy, current_cursor, total_listing_count, response, mf_now,
          marks, marked_at, reqs, emits, slept, attempted, resp_state, ms_result,
          headers, returned, cancel, fn_in, fn_out,
          filter_request>>

\* what the search runs and the ProxyManager calls never touch
otherVars == <<returned, cancel, fn_in, fn_out, filter_request>>

msVars == <<attempted, resp_state, ms_result>>
runVars == <<pc, max_pages, page, proxy, current_cursor, total_listing_count,
             response, mf_now, marks, reqs, emits, slept, msVars, headers>>

----------------------------------------------------------------------------
(* Bounds of the exploration *)
MaxProxies == 2
MaxTime == 3
MaxPages == 2
MaxText == 3

None == 0
Runs == {"w1", "w2"}      \* search_airbnb runs of the worker
MsRun == "ms"             \* a search_listings run of the microservice
\* single-request calls: find_price_range_for_search and get_listing_data of
\* the worker, find_price_range and get_listing_details of the microservice
OpRuns == {"probe", "ms_probe", "fetch", "ms_fetch"}
AllRuns == Runs \cup {MsRun} \cup OpRuns
Cursors == {1, 2}           \* two distinct pagination cursor tokens
ListingCounts == {5, 18}
Strategies == {"round_robin", "random"}

(* requests.exceptions raised by requests.get / raise_for_status.  ProxyError
   and ConnectTimeout are subclasses of ConnectionError; ReadTimeout and
   HTTPError are RequestExceptions outside that family. *)
Outcomes == {"ok", "ProxyError", "ConnectTimeout", "ConnectionError",
             "ReadTimeout", "HTTPError"}

----------------------------------------------------------------------------
(* ProxyManager *)

\* PROXY_COOLDOWN_SECONDS as configured for the exploration (default 120)
cooldown_seconds == 2

NoneDict == [http |-> None, https |-> None]

get_proxy_dict(proxy_url) == [http |-> proxy_url, https |-> proxy_url]

proxy_url_from_dict(proxy_dict) ==
    IF proxy_dict = NoneDict THEN None
    ELSE IF proxy_dict.https # None THEN proxy_dict.https ELSE proxy_dict.http

\* dict.get(proxy_url); bool(until and now < until)
is_in_cooldown(cd, proxy_url, t) ==
    /\ proxy_url \in DOMAIN cd
    /\ cd[proxy_url] # 0
    /\ t < cd[proxy_url]

\* pops every key whose until <= now
prune_expired_cooldowns(cd, t) ==
    [p \in {q \in DOMAIN cd : ~(cd[q] <= t)} |-> cd[p]]

\* variant: the cooldown filter is dropped
available_unfiltered(ps, cd, t) == ps

\* [p for p in self._proxies if not self._is_in_cooldown(p, now)]
available(ps, cd, t) == SelectSeq(ps, LAMBDA p : ~is_in_cooldown(cd, p, t))

\* variant: None as soon as one endpoint is cooling
get_healthy_proxy_strict(ps, cd, t, strategy) ==
    LET pruned == prune_expired_cooldowns(cd, t)
        avail  == available(ps, pruned, t)
    IN  IF Len(ps) = 0 THEN {NoneDict}
        ELSE IF Len(avail) < Len(ps) THEN {NoneDict}
        ELSE IF strategy = "random"
             THEN {get_proxy_dict(avail[i]) : i \in 1..Len(avail)}
             ELSE {get_proxy_dict(avail[1])}

\* the set of values get_healthy_proxy may return on pool (ps, cd) at time t
get_healthy_proxy(ps, cd, t, strategy) ==
    LET pruned == prune_expired_cooldowns(cd, t)
        avail  == available(ps, pruned, t)
    IN  IF Len(ps) = 0 THEN {NoneDict}
        ELSE IF Len(avail) = 0 THEN {NoneDict}
        ELSE IF strategy = "random"
             THEN {get_proxy_dict(avail[i]) : i \in 1..Len(avail)}
             ELSE {get_proxy_dict(avail[1])}

\* the dict after get_healthy_proxy: pruned unless the pool is empty
cooldown_after_get(ps, cd, t) ==
    IF Len(ps) = 0 THEN cd ELSE prune_expired_cooldowns(cd, t)

\* variant: the dict is rebuilt with the one entry
Put_alone(d, k, v) == [x \in {k} |-> v]

\* d[k] = v on a dict
Put(d, k, v) == [x \in DOMAIN d \cup {k} |-> IF x = k THEN v ELSE d[x]]

\* variant: the expiry is one second short
set_cooldown_short(cd, proxy_url, t) == Put(cd, proxy_url, t + cooldown_seconds - 1)

\* self._proxy_cooldown_until[proxy_url] = now + cooldown_seconds
set_cooldown(cd, proxy_url, t) == Put(cd, proxy_url, t + cooldown_seconds)

----------------------------------------------------------------------------
(* Response bodies and the search parser *)

(* A body is described by what the parser looks at: whether the script tag
   data-deferred-state-0 is there, whether its text is JSON, whether a
   niobeClientData item carries presentation.staysSearch.results (sub), the
   number n of search results and the nextPageCursor *)
NoBody == [script |-> FALSE, json |-> FALSE, sub |-> FALSE, n |-> 0, cursor |-> None]

\* a page of k results with next-page cursor c
PageBody(k, c) == [script |-> TRUE, json |-> TRUE, sub |-> TRUE, n |-> k, cursor |-> c]

Bodies ==
    {NoBody,
     [script |-> TRUE, json |-> FALSE, sub |-> FALSE, n |-> 0, cursor |-> None],
     [script |-> TRUE, json |-> TRUE, sub |-> FALSE, n |-> 0, cursor |-> None]}
    \cup {PageBody(k, c) : k \in ListingCounts, c \in Cursors \cup {None}}

\* variant: undecodable JSON is swallowed and an empty page returned
parse_airbnb_response_lenient(body) ==
    IF ~body.script THEN [error |-> "no_script", n |-> 0, next_cursor |-> None]
    ELSE IF ~body.json \/ ~body.sub THEN [error |-> "", n |-> 0, next_cursor |-> None]
    ELSE [error |-> "", n |-> body.n, next_cursor |-> body.cursor]

\* returns (listings, next_cursor); listings is an error dict or a list.
\* Without the results sub-path every .get falls back to its default and the
\* function returns ([], None).
parse_airbnb_response(body) ==
    IF ~body.script THEN [error |-> "no_script", n |-> 0, next_cursor |-> None]
    ELSE IF ~body.json THEN [error |-> "bad_json", n |-> 0, next_cursor |-> None]
    ELSE IF ~body.sub THEN [error |-> "", n |-> 0, next_cursor |-> None]
    ELSE [error |-> "", n |-> body.n, next_cursor |-> body.cursor]

----------------------------------------------------------------------------
(* Initial state: a configured pool, no cooldowns; each run is a queued
   search job carrying its page budget, or absent ("off") *)

Pool(n) == [i \in 1..n |-> i]

\* value of call in every state not produced by a recorded ProxyManager call.
\* A recorded call keeps: strategy (of get_healthy_proxy, or the name of the
\* other method), result (proxy dict returned or passed), count (number
\* returned by cooldown_active_count), t and cd (clock and cooldown dict when
\* it was entered) and what the step before it recorded.
NoCall == [strategy |-> "none", result |-> NoneDict, count |-> 0, t |-> 0, cd |-> <<>>,
           prev_strategy |-> "none", prev_result |-> NoneDict]

\* the record of a call of method op
CallRecord(op, result, count) ==
    [strategy |-> op, result |-> result, count |-> count, t |-> now,
     cd |-> proxy_cooldown_until,
     prev_strategy |-> call.strategy, prev_result |-> call.result]

\* value of returned while the call is running
NotReturned == [kind |-> "none", value |-> <<>>]

\* no pure function is under evaluation
NoFn == [fn |-> "none"]

InitRest ==
    /\ proxies \in {Pool(n) : n \in 0..MaxProxies}
    /\ proxy_cooldown_until = <<>>
    /\ marked_at = <<>>
    /\ now = 0
    /\ call = NoCall
    /\ page = [r \in AllRuns |-> 0]
    /\ proxy = [r \in AllRuns |-> NoneDict]
    /\ headers = [r \in AllRuns |-> 0]
    /\ returned = [r \in AllRuns |-> NotReturned]
    /\ cancel = FALSE
    /\ filter_request = <<>>
    /\ current_cursor = [r \in AllRuns |-> None]
    /\ total_listing_count = [r \in AllRuns |-> 0]
    /\ response = [r \in AllRuns |-> NoBody]
    /\ mf_now = [r \in AllRuns |-> 0]
    /\ marks = [r \in AllRuns |-> <<>>]
    /\ reqs = [r \in AllRuns |-> <<>>]
    /\ emits = [r \in AllRuns |-> <<>>]
    /\ slept = [r \in AllRuns |-> 0]
    /\ attempted = 0
    /\ resp_state = "None"
    /\ ms_result = "none"

\* a process that runs no search job: the pool and the clock only
InitPool ==
    /\ pc = [r \in AllRuns |-> "off"]
    /\ max_pages = [r \in AllRuns |-> 0]
    /\ upstream = [outcomes |-> {"ok"}, bodies |-> {NoBody}, error_bodies |-> {NoBody}]
    /\ InitRest
    /\ fn_in = NoFn
    /\ fn_out = NoFn

\* a worker process with one search job.  Of the exceptions the first except
\* clause of search_airbnb names, ConnectionError stands for its subclasses
\* ProxyError and ConnectTimeout.
InitWorker ==
    /\ pc = [r \in AllRuns |-> IF r = "w1" THEN "idle" ELSE "off"]
    /\ max_pages \in {[r \in AllRuns |-> IF r = "w1" THEN mp ELSE 0] : mp \in 0..MaxPages}
    /\ upstream = [outcomes |-> {"ok", "ConnectionError", "ReadTimeout", "HTTPError"},
                   bodies |-> Bodies, error_bodies |-> {NoBody}]
    /\ InitRest
    /\ fn_in = NoFn
    /\ fn_out = NoFn

\* a microservice process with one search request (max_pages >= 1 by the
\* request schema).  search_listings has a single except clause for every
\* RequestException, so one exception raised by requests.get and the one
\* raised by raise_for_status stand for all of them; pages have 5 listings;
\* the body of a non-2xx response has no data script or is a parseable page.
InitMs ==
    /\ pc = [r \in AllRuns |-> IF r = MsRun THEN "idle" ELSE "off"]
    /\ max_pages \in {[r \in AllRuns |-> IF r = MsRun THEN mp ELSE 0] : mp \in 1..MaxPages}
    /\ upstream = [outcomes |-> {"ok", "ConnectionError", "HTTPError"},
                   bodies |-> {b \in Bodies : b.n = 5},
                   error_bodies |-> {NoBody, PageBody(5, None)}]
    /\ InitRest
    /\ fn_in = NoFn
    /\ fn_out = NoFn

InitAll == InitWorker \/ InitMs

Init == InitWorker

\* a worker process with one search job of two pages that the scheduler may
\* ask to stop; connections fail or succeed and every page has a next page
InitCancel ==
    /\ pc = [r \in AllRuns |-> IF r = "w1" THEN "idle" ELSE "off"]
    /\ max_pages = [r \in AllRuns |-> IF r = "w1" THEN 2 ELSE 0]
    /\ upstream = [outcomes |-> {"ok", "ConnectionError"},
                   bodies |-> {PageBody(5, 1), PageBody(18, 2)},
                   error_bodies |-> {NoBody}]
    /\ InitRest
    /\ fn_in = NoFn
    /\ fn_out = NoFn

\* a worker process that took a search job for the pages page_start to
\* page_end; connections fail or succeed, a page has a next page or not, or
\* the document lacks the data script
InitJob ==
    /\ pc = [r \in AllRuns |-> IF r = "w1" THEN "job" ELSE "off"]
    /\ max_pages = [r \in AllRuns |-> 0]
    /\ upstream = [outcomes |-> {"ok", "ConnectionError"},
                   bodies |-> {PageBody(5, 1), PageBody(5, None), NoBody},
                   error_bodies |-> {NoBody}]
    /\ InitRest
    /\ fn_in \in [fn : {"search_worker"}, page_start : 1..2,
                   page_end : 1..(MaxPages + 1)]
    /\ fn_in.page_end - fn_in.page_start + 1 \in 1..MaxPages
    /\ fn_out = NoFn

\* two search jobs running in the same process (budgets 2 and 1) while
\* connections fail or succeed, with a full page that has a next-page cursor
\* or with a document that lacks the data script
InitConc ==
    /\ pc = [r \in AllRuns |-> IF r \in Runs THEN "idle" ELSE "off"]
    /\ max_pages = [r \in AllRuns |-> IF r = "w1" THEN 2 ELSE IF r = "w2" THEN 1 ELSE 0]
    /\ upstream = [outcomes |-> {"ok", "ConnectionError"},
                   bodies |-> {PageBody(5, 1), NoBody},
                   error_bodies |-> {NoBody}]
    /\ InitRest
    /\ fn_in = NoFn
    /\ fn_out = NoFn

----------------------------------------------------------------------------
(* The clock, and the calls on the ProxyManager made by the jobs that ran in
   the process before the search jobs explored here (price probe, listing
   fetcher, earlier searches) *)

\* no search job has started yet
NoRunStarted == \A r \in AllRuns : pc[r] \in {"idle", "off"}

\* the process is waiting: for the network, in a sleep, or for a job.  The
\* clock counts seconds; the statements between two waits take no time.
Waiting ==
    \/ \A r \in AllRuns : pc[r] = "off"
    \/ \E r \in AllRuns :
          pc[r] \in {"await", "retry_await", "sleep", "ms_await", "ms_direct_await",
                     "ms_sleep", "p_await", "p_retry_await", "f_await", "mf_await",
                     "mf_direct_await"}

Tick ==
    /\ now < MaxTime
    /\ Waiting
    /\ now' = now + 1
    /\ call' = NoCall
    /\ UNCHANGED <<proxies, proxy_cooldown_until, marked_at, upstream, otherVars, runVars>>

\* one execution of ProxyManager.get_healthy_proxy returning result
GetHealthyProxyStep(strategy, result) ==
    /\ result \in get_healthy_proxy(proxies, proxy_cooldown_until, now, strategy)
    /\ proxy_cooldown_until' = cooldown_after_get(proxies, proxy_cooldown_until, now)
    /\ call' = CallRecord(strategy, result, 0)
    /\ UNCHANGED <<proxies, marked_at, now, upstream, otherVars>>

CallGetHealthyProxy ==
    /\ NoRunStarted
    /\ \E strategy \in Strategies :
         \E result \in get_healthy_proxy(proxies, proxy_cooldown_until, now, strategy) :
            GetHealthyProxyStep(strategy, result)
    /\ UNCHANGED runVars

\* ProxyManager.mark_failed, run to completion by one of those jobs
CallMarkFailed ==
    /\ NoRunStarted
    /\ \E proxy_dict \in {get_proxy_dict(proxies[i]) : i \in 1..Len(proxies)} \cup {NoneDict} :
         LET proxy_url == proxy_url_from_dict(proxy_dict)
         IN  IF proxy_url = None
             THEN /\ call' = NoCall
                  /\ UNCHANGED <<proxy_cooldown_until, marked_at>>
             ELSE /\ proxy_cooldown_until' =
                        set_cooldown(proxy_cooldown_until, proxy_url, now)
                  /\ marked_at' = Put(marked_at, proxy_url, now)
                  /\ call' = CallRecord("mark_failed", proxy_dict, 0)
    /\ UNCHANGED <<proxies, now, upstream, otherVars, runVars>>

\* the number cooldown_active_count returns on pool (ps, cd) at time t
cooldown_active_count(ps, cd, t) ==
    IF Len(ps) = 0 THEN 0
    ELSE Cardinality({i \in 1..Len(ps) :
                        is_in_cooldown(prune_expired_cooldowns(cd, t), ps[i], t)})

\* the dict after cooldown_active_count: pruned unless the pool is empty
cooldown_after_count(ps, cd, t) ==
    IF Len(ps) = 0 THEN cd ELSE prune_expired_cooldowns(cd, t)

\* the status read of the /proxy-status route: has_proxies, proxy_count,
\* cooldown_seconds, cooldown_active_count
GetProxyStatus ==
    /\ NoRunStarted
    /\ proxy_cooldown_until' = cooldown_after_count(proxies, proxy_cooldown_until, now)
    /\ call' = CallRecord("status", NoneDict,
                          cooldown_active_count(proxies, proxy_cooldown_until, now))
    /\ UNCHANGED <<proxies, marked_at, now, upstream, otherVars, runVars>>

\* ProxyManager.reset_failures
ResetFailures ==
    /\ NoRunStarted
    /\ proxy_cooldown_until' = <<>>
    /\ marked_at' = <<>>
    /\ call' = NoCall
    /\ UNCHANGED <<proxies, now, upstream, otherVars, runVars>>

----------------------------------------------------------------------------
(* search_airbnb, one action per step of run r *)

\* variant: HTTPError is caught by the first except clause too
ProxyFailureClass_with_http == {"ProxyError", "ConnectTimeout", "ConnectionError", "HTTPError"}

\* except (ProxyError, ConnectTimeout, ConnectionError)
ProxyFailureClass == {"ProxyError", "ConnectTimeout", "ConnectionError"}

\* values import_function may return for a page of n listings: every listing
\* inserted, or none
SinkReturns(n) == {n, 0}

\* get_search_headers() / get_random_headers(): a header set drawn afresh,
\* the next one after the h-th
get_search_headers(h) == h + 1

\* variant: the header set is drawn again for every page
page_headers_rerolled(h, pg) == h + pg - 1

\* headers=headers: the header set a request for page pg is sent with
page_headers(h, pg) == h

\* timeout=30 of the requests.get calls that pass one
request_timeout == 30

\* the request issued by requests.get(url_path, params=current_params,
\* headers=headers, proxies=px, timeout=30), where current_params has
\* pagination_search and cursor when current_cursor is set; after_cancel
\* records whether the scheduler had already asked the job to stop when the
\* request was sent, cooling whether the endpoint was in cooldown then
Request(pg, cursor, px, h) ==
    [page |-> pg, cursor |-> cursor, pagination_search |-> cursor # None,
     proxy |-> px, headers |-> page_headers(h, pg),
     cooling |-> is_in_cooldown(proxy_cooldown_until, proxy_url_from_dict(px), now),
     timeout |-> request_timeout, after_cancel |-> cancel,
     outcome |-> "pending", parse |-> "", doc |-> "unread"]

\* note on the last request how it ended
SetOutcome(rq, outcome) ==
    [rq EXCEPT ![Len(rq)] = [@ EXCEPT !.outcome = outcome]]

\* note on the last request what the parser made of its response
SetParse(rq, error) ==
    [rq EXCEPT ![Len(rq)] = [@ EXCEPT !.parse = IF error = "" THEN "ok" ELSE error]]

\* the kind of document handed to parse_airbnb_response
DocOf(body) ==
    IF ~body.script THEN "no_script"
    ELSE IF ~body.json THEN "not_json"
    ELSE IF ~body.sub THEN "no_results_path"
    ELSE "page"

\* note on the last request which kind of document its response carried
SetDoc(rq, body) ==
    [rq EXCEPT ![Len(rq)] = [@ EXCEPT !.doc = DocOf(body)]]

\* what no action of a run but Start and MarkFailedWrite touches
RunFrame ==
    /\ call' = NoCall
    /\ UNCHANGED <<proxies, proxy_cooldown_until, marked_at, now, upstream, otherVars, max_pages,
                   headers>>

\* entry up to the for loop: select the proxy once, then enter the loop or return
Start(r) ==
    /\ pc[r] = "idle"
    /\ pc' = [pc EXCEPT ![r] = IF 1 <= max_pages[r] THEN "send" ELSE "done"]
    /\ \E result \in get_healthy_proxy(proxies, proxy_cooldown_until, now, "random") :
         /\ GetHealthyProxyStep("random", result)
         /\ proxy' = [proxy EXCEPT ![r] = result]
    /\ headers' = [headers EXCEPT ![r] = get_search_headers(@)]
    /\ page' = [page EXCEPT ![r] = 1]
    /\ current_cursor' = [current_cursor EXCEPT ![r] = None]
    /\ total_listing_count' = [total_listing_count EXCEPT ![r] = 0]
    /\ UNCHANGED <<max_pages, response, mf_now, marks, reqs, emits, slept, msVars>>

\* requests.get(..., proxies=proxy) is issued
SendRequest(r) ==
    /\ pc[r] = "send"
    /\ reqs' = [reqs EXCEPT ![r] = Append(@, Request(page[r], current_cursor[r], proxy[r], headers[r]))]
    /\ pc' = [pc EXCEPT ![r] = "await"]
    /\ RunFrame
    /\ UNCHANGED <<page, proxy, current_cursor, total_listing_count, response,
                   mf_now, marks, emits, slept, msVars>>

\* variant: a failed direct request is retried as well
after_request_retries_direct(outcome, px) ==
    IF outcome = "ok" THEN "parse"
    ELSE IF outcome \in ProxyFailureClass
         THEN (IF px # NoneDict THEN "mark_read" ELSE "retry_send")
         ELSE "done"

\* variant: a failed proxied request ends the run like any other failure
after_request_no_retry(outcome, px) == IF outcome = "ok" THEN "parse" ELSE "done"

\* where the first try block leaves the run
after_request(outcome, px) ==
    IF outcome = "ok" THEN "parse"
    ELSE IF outcome \in ProxyFailureClass
         THEN (IF px # NoneDict THEN "mark_read" ELSE "done")
         ELSE "done"

\* the request returns or raises; raise_for_status raises HTTPError
Respond(r) ==
    /\ pc[r] = "await"
    /\ \E outcome \in upstream.outcomes, body \in upstream.bodies :
         /\ reqs' = [reqs EXCEPT ![r] = SetOutcome(@, outcome)]
         /\ response' = [response EXCEPT ![r] = IF outcome = "ok" THEN body ELSE @]
         /\ pc' = [pc EXCEPT ![r] = after_request(outcome, proxy[r])]
    /\ RunFrame
    /\ UNCHANGED <<page, proxy, current_cursor, total_listing_count,
                   mf_now, marks, emits, slept, msVars>>

\* mark_failed: now = time.time()
MarkFailedRead(r) ==
    /\ pc[r] = "mark_read"
    /\ mf_now' = [mf_now EXCEPT ![r] = now]
    /\ pc' = [pc EXCEPT ![r] = "mark_write"]
    /\ RunFrame
    /\ UNCHANGED <<page, proxy, current_cursor, total_listing_count, response,
                   marks, reqs, emits, slept, msVars>>

\* variant: the failed proxy is kept for the following pages
proxy_after_mark_kept(px) == px

\* proxy = None: don't reuse the failed proxy for the following pages
proxy_after_mark(px) == NoneDict

\* mark_failed: the store into _proxy_cooldown_until; then proxy = None
MarkFailedWrite(r) ==
    /\ pc[r] = "mark_write"
    /\ LET proxy_url == proxy_url_from_dict(proxy[r])
       IN  /\ proxy_cooldown_until' = set_cooldown(proxy_cooldown_until, proxy_url, mf_now[r])
           /\ marks' = [marks EXCEPT ![r] =
                 Append(@, proxy_url)]
           /\ marked_at' = Put(marked_at, proxy_url, mf_now[r])
    /\ proxy' = [proxy EXCEPT ![r] = proxy_after_mark(@)]
    /\ pc' = [pc EXCEPT ![r] = "retry_send"]
    /\ call' = NoCall
    /\ UNCHANGED <<proxies, now, upstream, otherVars, max_pages, page, current_cursor, headers,
                   total_listing_count, response, mf_now, reqs, emits, slept, msVars>>

\* requests.get(..., proxies=None) of the retry is issued
SendRetry(r) ==
    /\ pc[r] = "retry_send"
    /\ reqs' = [reqs EXCEPT ![r] = Append(@, Request(page[r], current_cursor[r], NoneDict, headers[r]))]
    /\ pc' = [pc EXCEPT ![r] = "retry_await"]
    /\ RunFrame
    /\ UNCHANGED <<page, proxy, current_cursor, total_listing_count, response,
                   mf_now, marks, emits, slept, msVars>>

\* where the nested try block leaves the run
after_retry(outcome) == IF outcome = "ok" THEN "parse" ELSE "done"

\* the retry returns or raises
RespondRetry(r) ==
    /\ pc[r] = "retry_await"
    /\ \E outcome \in upstream.outcomes, body \in upstream.bodies :
         /\ reqs' = [reqs EXCEPT ![r] = SetOutcome(@, outcome)]
         /\ response' = [response EXCEPT ![r] = IF outcome = "ok" THEN body ELSE @]
         /\ pc' = [pc EXCEPT ![r] = after_retry(outcome)]
    /\ RunFrame
    /\ UNCHANGED <<page, proxy, current_cursor, total_listing_count,
                   mf_now, marks, emits, slept, msVars>>

\* variant: the page is not handed to the sink
import_page_skipped(em, pg, ret, nreq, next_cursor) == em

\* import_function(json.dumps(listings)) is called for page pg and returns ret
import_page(em, pg, ret, nreq, next_cursor) ==
    Append(em, [page |-> pg, ret |-> ret, nreq |-> nreq, next_cursor |-> next_cursor])

\* variant: = instead of +=
add_count_overwrite(total, ret) == ret

\* total_listing_count += import_function(...)
add_count(total, ret) == total + ret

\* variant: current_cursor is never assigned
current_cursor_kept(old, next_cursor) == old

\* if not next_cursor: break, else current_cursor = next_cursor
current_cursor_after(old, next_cursor) ==
    IF next_cursor = None THEN old ELSE next_cursor

\* variant: the missing cursor does not end the loop
after_emit_ignores_cursor(next_cursor, pg, mp) == IF pg < mp THEN "sleep" ELSE "done"

\* variant: the page budget does not end the loop
after_emit_unbounded(next_cursor, pg, mp) == IF next_cursor = None THEN "done" ELSE "sleep"

\* where the loop body leaves the run after a page has been emitted
after_emit(next_cursor, pg, mp) ==
    IF next_cursor = None THEN "done"
    ELSE IF pg < mp THEN "sleep" ELSE "done"

\* parse the response, stop on an error dict, else emit and decide
ParsePage(r) ==
    /\ pc[r] = "parse"
    /\ LET res == parse_airbnb_response(response[r])
       IN  /\ reqs' = [reqs EXCEPT ![r] = SetDoc(SetParse(@, res.error), response[r])]
           /\ IF res.error # ""
              THEN /\ pc' = [pc EXCEPT ![r] = "done"]
                   /\ UNCHANGED <<total_listing_count, emits, current_cursor>>
              ELSE \E ret \in SinkReturns(res.n) :
                   /\ emits' = [emits EXCEPT ![r] =
                         import_page(@, page[r], ret, Len(reqs[r]), res.next_cursor)]
                   /\ total_listing_count' =
                         [total_listing_count EXCEPT ![r] = add_count(@, ret)]
                   /\ current_cursor' = [current_cursor EXCEPT ![r] =
                         current_cursor_after(@, res.next_cursor)]
                   /\ pc' = [pc EXCEPT ![r] =
                         after_emit(res.next_cursor, page[r], max_pages[r])]
    /\ response' = [response EXCEPT ![r] = NoBody]   \* not read again
    /\ RunFrame
    /\ UNCHANGED <<page, proxy, mf_now, marks, slept, msVars>>

\* variant: the loop goes on to the next page without sleeping
sleep_skipped(n) == n

\* number of sleeps taken once time.sleep(...) has returned
sleep_taken(n) == n + 1

\* time.sleep(get_random_delay(1.0, 3.0)), then the next iteration
Sleep(r) ==
    /\ pc[r] = "sleep"
    /\ slept' = [slept EXCEPT ![r] = sleep_taken(@)]
    /\ page' = [page EXCEPT ![r] = @ + 1]
    /\ pc' = [pc EXCEPT ![r] = "send"]
    /\ RunFrame
    /\ UNCHANGED <<proxy, current_cursor, total_listing_count, response,
                   mf_now, marks, reqs, emits, msVars>>

RunStep(r) ==
    \/ Start(r)
    \/ SendRequest(r)
    \/ Respond(r)
    \/ MarkFailedRead(r)
    \/ MarkFailedWrite(r)
    \/ SendRetry(r)
    \/ RespondRetry(r)
    \/ ParsePage(r)
    \/ Sleep(r)

----------------------------------------------------------------------------
(* search_listings of the microservice, run MsRun.  The route calls it
   synchronously from the event loop, so no other call interleaves with it. *)

ms == MsRun

MsFrame ==
    /\ call' = NoCall
    /\ UNCHANGED <<proxies, now, upstream, otherVars, max_pages, mf_now, slept>>

\* entry of search_listings and the first iteration's set-up
MsStart ==
    /\ pc[ms] = "idle"
    /\ page' = [page EXCEPT ![ms] = 1]
    /\ current_cursor' = [current_cursor EXCEPT ![ms] = None]
    /\ total_listing_count' = [total_listing_count EXCEPT ![ms] = 0]
    /\ attempted' = 0
    /\ resp_state' = "None"
    /\ headers' = [headers EXCEPT ![ms] = get_search_headers(@)]
    /\ pc' = [pc EXCEPT ![ms] = "ms_select"]
    /\ MsFrame
    /\ UNCHANGED <<proxy_cooldown_until, marked_at, proxy, response, marks, reqs,
                   emits, ms_result>>

\* while attempted < max_proxy_attempts: pick a healthy proxy and send, or leave
MsSelect ==
    /\ pc[ms] = "ms_select"
    /\ IF attempted < Len(proxies)
       THEN \E px \in get_healthy_proxy(proxies, proxy_cooldown_until, now, "round_robin") :
              /\ GetHealthyProxyStep("round_robin", px)
              /\ proxy' = [proxy EXCEPT ![ms] = px]
              /\ IF px = NoneDict
                 THEN /\ pc' = [pc EXCEPT ![ms] = "ms_after"]
                      /\ UNCHANGED <<attempted, reqs>>
                 ELSE /\ attempted' = attempted + 1
                      /\ reqs' = [reqs EXCEPT ![ms] =
                            Append(@, Request(page[ms], current_cursor[ms], px, headers[ms]))]
                      /\ pc' = [pc EXCEPT ![ms] = "ms_await"]
       ELSE /\ pc' = [pc EXCEPT ![ms] = "ms_after"]
            /\ call' = NoCall
            /\ UNCHANGED <<proxy_cooldown_until, marked_at, proxies, now, upstream, otherVars,
                           proxy, attempted, reqs>>
    /\ UNCHANGED <<max_pages, page, current_cursor, total_listing_count, response,
                   mf_now, marks, emits, slept, resp_state, ms_result, headers>>

\* the body a response carries: a non-2xx response has a body of its own
BodiesOf(outcome) ==
    IF outcome = "HTTPError" THEN upstream.error_bodies ELSE upstream.bodies

\* response is bound by the assignment unless requests.get itself raised
bind_response(old, outcome) ==
    IF outcome = "ok" THEN "ok"
    ELSE IF outcome = "HTTPError" THEN "bad_status"
    ELSE old

\* the proxied request returns, or raises and the proxy is marked failed
MsRespond ==
    /\ pc[ms] = "ms_await"
    /\ \E outcome \in upstream.outcomes : \E body \in BodiesOf(outcome) :
         /\ reqs' = [reqs EXCEPT ![ms] = SetOutcome(@, outcome)]
         /\ resp_state' = bind_response(resp_state, outcome)
         /\ response' = [response EXCEPT ![ms] =
               IF outcome \in {"ok", "HTTPError"} THEN body ELSE @]
         /\ IF outcome = "ok"
            THEN /\ pc' = [pc EXCEPT ![ms] = "ms_after"]
                 /\ UNCHANGED <<proxy_cooldown_until, marked_at, marks>>
            ELSE LET proxy_url == proxy_url_from_dict(proxy[ms])
                 IN  /\ proxy_cooldown_until' =
                           set_cooldown(proxy_cooldown_until, proxy_url, now)
                     /\ marked_at' = Put(marked_at, proxy_url, now)
                     /\ marks' = [marks EXCEPT ![ms] =
                           Append(@, proxy_url)]
                     /\ pc' = [pc EXCEPT ![ms] = "ms_select"]
    /\ MsFrame
    /\ UNCHANGED <<page, proxy, current_cursor, total_listing_count, emits,
                   attempted, ms_result, headers>>

\* if response is None: the direct request is issued
MsAfter ==
    /\ pc[ms] = "ms_after"
    /\ IF resp_state = "None"
       THEN /\ reqs' = [reqs EXCEPT ![ms] =
                  Append(@, Request(page[ms], current_cursor[ms], NoneDict, headers[ms]))]
            /\ pc' = [pc EXCEPT ![ms] = "ms_direct_await"]
       ELSE /\ pc' = [pc EXCEPT ![ms] = "ms_parse"]
            /\ UNCHANGED reqs
    /\ MsFrame
    /\ UNCHANGED <<proxy_cooldown_until, marked_at, page, proxy, current_cursor,
                   total_listing_count, response, marks, emits, msVars, headers>>

\* the direct request returns or raises; then the second "if response is None"
MsDirectRespond ==
    /\ pc[ms] = "ms_direct_await"
    /\ \E outcome \in upstream.outcomes : \E body \in BodiesOf(outcome) :
         /\ reqs' = [reqs EXCEPT ![ms] = SetOutcome(@, outcome)]
         /\ resp_state' = bind_response(resp_state, outcome)
         /\ response' = [response EXCEPT ![ms] =
               IF outcome \in {"ok", "HTTPError"} THEN body ELSE @]
         /\ IF bind_response(resp_state, outcome) = "None"
            THEN /\ ms_result' = "failure"
                 /\ pc' = [pc EXCEPT ![ms] = "done"]
            ELSE /\ pc' = [pc EXCEPT ![ms] = "ms_parse"]
                 /\ UNCHANGED ms_result
    /\ MsFrame
    /\ UNCHANGED <<proxy_cooldown_until, marked_at, page, proxy, current_cursor,
                   total_listing_count, marks, emits, attempted, headers>>

\* where the loop body of search_listings leaves the run after a parsed page
ms_after_page(next_cursor, pg, mp) ==
    IF next_cursor = None THEN "done"
    ELSE IF pg < mp THEN "ms_sleep" ELSE "done"

\* parse; on an error dict return failure; else extend all_listings and decide
MsParse ==
    /\ pc[ms] = "ms_parse"
    /\ LET res == parse_airbnb_response(response[ms])
           nxt == ms_after_page(res.next_cursor, page[ms], max_pages[ms])
       IN  /\ reqs' = [reqs EXCEPT ![ms] = SetDoc(SetParse(@, res.error), response[ms])]
           /\ IF res.error # ""
              THEN /\ ms_result' = "failure"
                   /\ pc' = [pc EXCEPT ![ms] = "done"]
                   /\ UNCHANGED <<total_listing_count, emits, current_cursor>>
              ELSE /\ emits' = [emits EXCEPT ![ms] =
                         import_page(@, page[ms], res.n, Len(reqs[ms]), res.next_cursor)]
                   /\ total_listing_count' =
                         [total_listing_count EXCEPT ![ms] = @ + res.n]
                   /\ current_cursor' = [current_cursor EXCEPT ![ms] =
                         current_cursor_after(@, res.next_cursor)]
                   /\ pc' = [pc EXCEPT ![ms] = nxt]
                   /\ ms_result' = IF nxt = "done" THEN "success" ELSE ms_result
    /\ response' = [response EXCEPT ![ms] = NoBody]   \* rebound before the next read
    /\ MsFrame
    /\ UNCHANGED <<proxy_cooldown_until, marked_at, page, proxy, marks, attempted,
                   resp_state, headers>>

\* time.sleep(get_random_delay(1, 4.0)), then the next iteration's set-up
MsSleep ==
    /\ pc[ms] = "ms_sleep"
    /\ page' = [page EXCEPT ![ms] = @ + 1]
    /\ attempted' = 0
    /\ resp_state' = "None"
    /\ slept' = [slept EXCEPT ![ms] = @ + 1]
    /\ pc' = [pc EXCEPT ![ms] = "ms_select"]
    /\ call' = NoCall
    /\ UNCHANGED <<proxies, proxy_cooldown_until, marked_at, now, upstream, otherVars, max_pages,
                   proxy, current_cursor, total_listing_count, response, mf_now,
                   marks, reqs, emits, ms_result, headers>>

MsStep ==
    \/ MsStart
    \/ MsSelect
    \/ MsRespond
    \/ MsAfter
    \/ MsDirectRespond
    \/ MsParse
    \/ MsSleep

----------------------------------------------------------------------------
(* The single-request calls: the price-range probe and the listing-detail
   fetch.  Each runs alone in its process here; mark_failed runs to completion. *)

\* the request of a call that has no page and no cursor; timeout is None (0)
\* when requests.get is called without one
OpRequest(px, h, timeout) ==
    [page |-> 0, cursor |-> None, proxy |-> px, headers |-> h, timeout |-> timeout,
     after_cancel |-> cancel, outcome |-> "pending", parse |-> "", doc |-> "unread"]

\* how a call ended
Returns(v) == [kind |-> "value", value |-> v]
Raises(e) == [kind |-> "raised", value |-> e]
\* the end of the function body is reached without a return statement
ReturnsNone == [kind |-> "implicit_none", value |-> <<>>]

\* what the frame of every step of these calls leaves alone
OpFrame ==
    UNCHANGED <<proxies, now, upstream, max_pages, page, current_cursor,
                total_listing_count, mf_now, emits, slept, resp_state, ms_result,
                cancel, fn_in, filter_request, fn_out>>

\* proxy_manager.mark_failed(px) by run r, run to completion
OpMarkFailed(r, px) ==
    LET proxy_url == proxy_url_from_dict(px)
    IN  /\ proxy_cooldown_until' = set_cooldown(proxy_cooldown_until, proxy_url, now)
        /\ marked_at' = Put(marked_at, proxy_url, now)
        /\ marks' = [marks EXCEPT ![r] = Append(@, proxy_url)]

(* Documents served to the probe: kind says how far the navigation to the
   price filter gets; lo, hi are minValue and maxValue of the item that has
   a priceHistogram (the defaults 0 and 25000 when a key is missing) *)
ProbeDocs ==
    {[kind |-> k, lo |-> 0, hi |-> 0] :
        k \in {"no_script", "not_json", "malformed", "no_histogram"}}
    \cup {[kind |-> "histogram", lo |-> 10, hi |-> 900],
          [kind |-> "histogram", lo |-> 40, hi |-> 25000]}

\* return (0, 25000)
Sentinel == <<0, 25000>>

\* the second try block of the probe: every path returns a pair
probe_parse(body) ==
    IF body.kind = "histogram" THEN <<body.lo, body.hi>> ELSE Sentinel

\* every requests.exceptions.RequestException of the model
RequestException == Outcomes \ {"ok"}

\* the exceptions the except clause around the first request catches:
\* (ProxyError, ConnectTimeout, ConnectionError) in find_price_range_for_search,
\* RequestException in find_price_range
ProbeCaught(r) == IF r = "probe" THEN ProxyFailureClass ELSE RequestException

\* entry: headers, get_healthy_proxy(strategy="random"), the first request
ProbeStart(r) ==
    /\ pc[r] = "idle"
    /\ \E result \in get_healthy_proxy(proxies, proxy_cooldown_until, now, "random") :
         /\ GetHealthyProxyStep("random", result)
         /\ proxy' = [proxy EXCEPT ![r] = result]
         /\ reqs' = [reqs EXCEPT ![r] =
               Append(@, OpRequest(result, get_search_headers(headers[r]), request_timeout))]
    /\ headers' = [headers EXCEPT ![r] = get_search_headers(@)]
    /\ pc' = [pc EXCEPT ![r] = "p_await"]
    /\ UNCHANGED <<max_pages, page, current_cursor, total_listing_count, response,
                   mf_now, marks, emits, slept, msVars, returned, cancel, fn_in, filter_request, fn_out>>

\* the first request returns or raises
ProbeRespond(r) ==
    /\ pc[r] = "p_await"
    /\ \E outcome \in upstream.outcomes, body \in upstream.bodies :
         IF outcome = "ok"
         THEN /\ reqs' = [reqs EXCEPT ![r] = SetOutcome(@, outcome)]
              /\ response' = [response EXCEPT ![r] = body]
              /\ pc' = [pc EXCEPT ![r] = "p_parse"]
              /\ UNCHANGED <<proxy_cooldown_until, marked_at, marks, returned>>
         ELSE IF outcome \in ProbeCaught(r)
         THEN IF proxy[r] # NoneDict
              THEN /\ OpMarkFailed(r, proxy[r])
                   /\ reqs' = [reqs EXCEPT ![r] =
                         Append(SetOutcome(@, outcome),
                                OpRequest(NoneDict, headers[r], request_timeout))]
                   /\ pc' = [pc EXCEPT ![r] = "p_retry_await"]
                   /\ UNCHANGED <<response, returned>>
              ELSE /\ reqs' = [reqs EXCEPT ![r] = SetOutcome(@, outcome)]
                   /\ returned' = [returned EXCEPT ![r] = Returns(Sentinel)]
                   /\ pc' = [pc EXCEPT ![r] = "done"]
                   /\ UNCHANGED <<proxy_cooldown_until, marked_at, marks, response>>
         ELSE /\ reqs' = [reqs EXCEPT ![r] = SetOutcome(@, outcome)]
              /\ returned' = [returned EXCEPT ![r] = Raises(outcome)]
              /\ pc' = [pc EXCEPT ![r] = "done"]
              /\ UNCHANGED <<proxy_cooldown_until, marked_at, marks, response>>
    /\ call' = NoCall
    /\ OpFrame
    /\ UNCHANGED <<proxy, headers, attempted>>

\* the direct retry returns or raises; except Exception: return (0, 25000)
ProbeRetryRespond(r) ==
    /\ pc[r] = "p_retry_await"
    /\ \E outcome \in upstream.outcomes, body \in upstream.bodies :
         /\ reqs' = [reqs EXCEPT ![r] = SetOutcome(@, outcome)]
         /\ IF outcome = "ok"
            THEN /\ response' = [response EXCEPT ![r] = body]
                 /\ pc' = [pc EXCEPT ![r] = "p_parse"]
                 /\ UNCHANGED returned
            ELSE /\ returned' = [returned EXCEPT ![r] = Returns(Sentinel)]
                 /\ pc' = [pc EXCEPT ![r] = "done"]
                 /\ UNCHANGED response
    /\ call' = NoCall
    /\ OpFrame
    /\ UNCHANGED <<proxy_cooldown_until, marked_at, marks, proxy, headers, attempted>>

\* the second try block
ProbeParse(r) ==
    /\ pc[r] = "p_parse"
    /\ reqs' = [reqs EXCEPT ![r] =
          [@ EXCEPT ![Len(@)] = [@ EXCEPT !.doc = response[r].kind]]]
    /\ returned' = [returned EXCEPT ![r] = Returns(probe_parse(response[r]))]
    /\ pc' = [pc EXCEPT ![r] = "done"]
    /\ call' = NoCall
    /\ OpFrame
    /\ UNCHANGED <<proxy_cooldown_until, marked_at, marks, proxy, headers, attempted,
                   response>>

ProbeStep(r) ==
    \/ ProbeStart(r)
    \/ ProbeRespond(r)
    \/ ProbeRetryRespond(r)
    \/ ProbeParse(r)

(* Documents served to the listing-detail fetch *)
DetailDocs == {[kind |-> k] : k \in {"no_script", "not_json", "no_pdp", "pdp"}}

\* what get_listing_data returns: the parsed sections or {"error": text}; the
\* whole body is inside try / except Exception, so nothing is raised
get_listing_data(outcome, body) ==
    IF outcome # "ok" THEN [error |-> outcome]
    ELSE IF body.kind = "no_script" THEN [error |-> "Could not find data-deferred-state-0"]
    ELSE IF body.kind = "not_json" THEN [error |-> "JSONDecodeError"]
    ELSE IF body.kind = "no_pdp" THEN [error |-> "Could not locate PDP data in JSON structure"]
    ELSE [error |-> ""]

\* listing_worker -> get_listing_data(room_id) of the worker:
\* requests.get(url, headers=headers), no proxies and no timeout argument
FetchStart ==
    /\ pc["fetch"] = "idle"
    /\ reqs' = [reqs EXCEPT !["fetch"] = Append(@, OpRequest(NoneDict, 0, None))]
    /\ pc' = [pc EXCEPT !["fetch"] = "f_await"]
    /\ call' = NoCall
    /\ OpFrame
    /\ UNCHANGED <<proxy_cooldown_until, marked_at, marks, proxy, headers, attempted,
                   response, returned>>

\* the request returns or raises; the function returns its dict
FetchRespond ==
    /\ pc["fetch"] = "f_await"
    /\ \E outcome \in upstream.outcomes, body \in upstream.bodies :
         /\ reqs' = [reqs EXCEPT !["fetch"] = SetOutcome(@, outcome)]
         /\ returned' = [returned EXCEPT !["fetch"] =
               Returns(get_listing_data(outcome, body))]
    /\ pc' = [pc EXCEPT !["fetch"] = "done"]
    /\ call' = NoCall
    /\ OpFrame
    /\ UNCHANGED <<proxy_cooldown_until, marked_at, marks, proxy, headers, attempted,
                   response>>

\* "Could not find" not in err: the errors that make get_listing_details
\* mark the proxy and go on to the next one
punished(result) ==
    result.error \notin {"", "Could not find data-deferred-state-0"}

\* get_listing_details, entry: attempted = 0, result = None
MfStart ==
    /\ pc["ms_fetch"] = "idle"
    /\ attempted' = 0
    /\ pc' = [pc EXCEPT !["ms_fetch"] = "mf_select"]
    /\ call' = NoCall
    /\ OpFrame
    /\ UNCHANGED <<proxy_cooldown_until, marked_at, marks, proxy, headers, response,
                   reqs, returned>>

\* while attempted < max_proxy_attempts: pick a healthy proxy and fetch through
\* it; when the loop is left with result None, fetch without proxy
MfSelect ==
    /\ pc["ms_fetch"] = "mf_select"
    /\ IF attempted < Len(proxies)
       THEN \E px \in get_healthy_proxy(proxies, proxy_cooldown_until, now, "round_robin") :
              /\ GetHealthyProxyStep("round_robin", px)
              /\ proxy' = [proxy EXCEPT !["ms_fetch"] = px]
              /\ reqs' = [reqs EXCEPT !["ms_fetch"] =
                    Append(@, OpRequest(px, 0, request_timeout))]
              /\ IF px = NoneDict
                 THEN /\ pc' = [pc EXCEPT !["ms_fetch"] = "mf_direct_await"]
                      /\ UNCHANGED attempted
                 ELSE /\ attempted' = attempted + 1
                      /\ pc' = [pc EXCEPT !["ms_fetch"] = "mf_await"]
       ELSE /\ reqs' = [reqs EXCEPT !["ms_fetch"] =
                  Append(@, OpRequest(NoneDict, 0, request_timeout))]
            /\ pc' = [pc EXCEPT !["ms_fetch"] = "mf_direct_await"]
            /\ call' = NoCall
            /\ UNCHANGED <<proxy_cooldown_until, marked_at, proxies, now, upstream,
                           proxy, attempted>>
    /\ UNCHANGED <<max_pages, page, current_cursor, total_listing_count, response,
                   mf_now, marks, emits, slept, resp_state, ms_result, headers,
                   returned, cancel, fn_in, filter_request, fn_out>>

\* get_listing_data(room_id, proxy=proxy) returns.  A punished error marks the
\* proxy and continues the loop; any other result leaves the loop with result
\* set, the block under "if result is None" is skipped and the function ends
\* without a return statement.
MfRespond ==
    /\ pc["ms_fetch"] = "mf_await"
    /\ \E outcome \in upstream.outcomes, body \in upstream.bodies :
         LET result == get_listing_data(outcome, body)
         IN  /\ reqs' = [reqs EXCEPT !["ms_fetch"] =
                   SetParse(SetOutcome(@, outcome), result.error)]
             /\ IF punished(result)
                THEN /\ OpMarkFailed("ms_fetch", proxy["ms_fetch"])
                     /\ pc' = [pc EXCEPT !["ms_fetch"] = "mf_select"]
                     /\ UNCHANGED returned
                ELSE /\ returned' = [returned EXCEPT !["ms_fetch"] = ReturnsNone]
                     /\ pc' = [pc EXCEPT !["ms_fetch"] = "done"]
                     /\ UNCHANGED <<proxy_cooldown_until, marked_at, marks>>
    /\ call' = NoCall
    /\ OpFrame
    /\ UNCHANGED <<proxy, headers, attempted, response>>

\* get_listing_data(room_id, proxy=None) returns: success False with the
\* error, or success True with the data
MfDirectRespond ==
    /\ pc["ms_fetch"] = "mf_direct_await"
    /\ \E outcome \in upstream.outcomes, body \in upstream.bodies :
         LET result == get_listing_data(outcome, body)
         IN  /\ reqs' = [reqs EXCEPT !["ms_fetch"] =
                   SetParse(SetOutcome(@, outcome), result.error)]
             /\ returned' = [returned EXCEPT !["ms_fetch"] =
                   Returns([success |-> result.error = "", error |-> result.error])]
    /\ pc' = [pc EXCEPT !["ms_fetch"] = "done"]
    /\ call' = NoCall
    /\ OpFrame
    /\ UNCHANGED <<proxy_cooldown_until, marked_at, marks, proxy, headers, attempted,
                   response>>

OpStep ==
    \/ \E r \in {"probe", "ms_probe"} : ProbeStep(r)
    \/ FetchStart
    \/ FetchRespond
    \/ MfStart
    \/ MfSelect
    \/ MfRespond
    \/ MfDirectRespond

\* one of the four calls is about to run; any request may fail or be answered
\* with any of the documents the call can be served
InitOps ==
    /\ \E r \in OpRuns :
         /\ pc = [q \in AllRuns |-> IF q = r THEN "idle" ELSE "off"]
         /\ upstream = [outcomes |-> {"ok", "ConnectionError", "ReadTimeout", "HTTPError"},
                        bodies |-> IF r \in {"probe", "ms_probe"} THEN ProbeDocs
                                   ELSE DetailDocs,
                        error_bodies |-> {NoBody}]
    /\ max_pages = [r \in AllRuns |-> 0]
    /\ InitRest
    /\ fn_in = NoFn
    /\ fn_out = NoFn

----------------------------------------------------------------------------
(* The pure functions: build_airbnb_url, get_random_headers, the listing
   loop of parse_airbnb_response and parse_pdp_sections.  fn_in holds the arguments, fn_out the
   value returned. *)

\* str(v) and the {v} of an f-string: the text of a value
str(v) == [str |-> v]

\* params[k] = v
set(params, k, v) == (k :> v) @@ params

\* f"{key}:{value}", an entry of selected_filter_order
entry(key, value) == [key |-> key, text |-> str(value)]

\* an optional argument: nothing when it is None, else its entry
opt_entry(key, value) == IF value = None THEN <<>> ELSE <<entry(key, value)>>

\* an optional argument that is put into the query as str(value)
opt_param(params, key, value) ==
    IF value = None THEN params ELSE set(params, key, str(value))

\* variant: only the first amenity gets an entry
amenity_entries_first(clean_amenities) ==
    IF clean_amenities = <<>> THEN <<>> ELSE <<entry("amenities", clean_amenities[1])>>

\* for amenity in clean_amenities: selected_filter_order.append(f"amenities:{amenity}")
amenity_entries(clean_amenities) ==
    [i \in 1..Len(clean_amenities) |-> entry("amenities", clean_amenities[i])]

\* variant: the flag counts the distinct filter keys
update_selected_filters_by_key(selected_filter_order) ==
    IF Cardinality({selected_filter_order[i].key :
                       i \in 1..Len(selected_filter_order)}) > 1
    THEN "true" ELSE "false"

\* "true" if len(selected_filter_order) > 1 else "false"
update_selected_filters(selected_filter_order) ==
    IF Len(selected_filter_order) > 1 THEN "true" ELSE "false"

\* the query parameters built from the optional filters (a is the record of
\* the arguments; None is 0, the values given are positive; num_nights is
\* the number of nights between checkin and checkout, None when a date does
\* not parse).  The fixed parameters other than search_type are left out.
build_airbnb_url(a) ==
    LET price_on == a.price_min # None \/ a.price_max # None
        has_filters ==
            \/ price_on
            \/ a.amenities # <<>>
            \/ a.room_type # None
            \/ a.min_bedrooms # None
            \/ a.min_beds # None
            \/ a.min_bathrooms # None
        selected_filter_order ==
            opt_entry("price_min", a.price_min)
            \o opt_entry("price_max", a.price_max)
            \o amenity_entries(a.amenities)
            \o opt_entry("room_types", a.room_type)
            \o opt_entry("min_bedrooms", a.min_bedrooms)
            \o opt_entry("min_beds", a.min_beds)
            \o opt_entry("min_bathrooms", a.min_bathrooms)
        p0 == "search_type" :> "search_query"
        p1 == IF price_on
              THEN set(set(p0, "price_filter_input_type", "2"), "channel", "EXPLORE")
              ELSE p0
        p2 == IF price_on /\ a.num_nights # None
              THEN set(p1, "price_filter_num_nights", str(a.num_nights))
              ELSE p1
        p3 == opt_param(opt_param(p2, "price_min", a.price_min), "price_max", a.price_max)
        p4 == IF a.amenities # <<>> THEN set(p3, "amenities[]", a.amenities) ELSE p3
        p5 == IF a.room_type # None THEN set(p4, "room_types[]", a.room_type) ELSE p4
        p6 == opt_param(opt_param(opt_param(p5, "min_bedrooms", a.min_bedrooms),
                                  "min_beds", a.min_beds),
                        "min_bathrooms", a.min_bathrooms)
        p7 == IF has_filters
              THEN set(set(set(p6, "search_type", "filter_change"),
                           "search_mode", "regular_search"),
                       "update_selected_filters",
                       update_selected_filters(selected_filter_order))
              ELSE p6
    IN  IF has_filters /\ selected_filter_order # <<>>
        THEN set(p7, "selected_filter_order[]", selected_filter_order)
        ELSE p7

\* the calls explored: every optional filter given or not, no, one or two
\* amenities
BuildInputs ==
    [fn : {"build_airbnb_url"},
     num_nights : {None, 3},
     price_min : {None, 50},
     price_max : {None, 200},
     amenities : {<<>>, <<4>>, <<4, 7>>, <<7, 4>>},
     room_type : {None, 1},
     min_bedrooms : {None, 2},
     min_beds : {None, 3},
     min_bathrooms : {None, 1}]

\* USER_AGENTS: the browser, its major version and the operating system each
\* string names, and the product tokens that occur in the string
UserAgent(browser, version, os, tokens) ==
    [browser |-> browser, version |-> version, os |-> os, tokens |-> tokens]

ChromeTokens == {"Mozilla", "AppleWebKit", "Chrome", "Safari"}
FirefoxTokens == {"Mozilla", "Gecko", "Firefox"}
SafariTokens == {"Mozilla", "AppleWebKit", "Version", "Safari"}

USER_AGENTS ==
    <<UserAgent("Chrome", 120, "Windows", ChromeTokens),
      UserAgent("Chrome", 119, "Windows", ChromeTokens),
      UserAgent("Chrome", 121, "Windows", ChromeTokens),
      UserAgent("Chrome", 120, "macOS", ChromeTokens),
      UserAgent("Chrome", 119, "macOS", ChromeTokens),
      UserAgent("Firefox", 121, "Windows", FirefoxTokens),
      UserAgent("Firefox", 120, "Windows", FirefoxTokens),
      UserAgent("Firefox", 122, "Windows", FirefoxTokens),
      UserAgent("Firefox", 121, "macOS", FirefoxTokens),
      UserAgent("Firefox", 120, "macOS", FirefoxTokens),
      UserAgent("Safari", 17, "macOS", SafariTokens),
      UserAgent("Safari", 17, "macOS", SafariTokens),
      UserAgent("Edge", 120, "Windows", ChromeTokens \cup {"Edg"}),
      UserAgent("Chrome", 120, "Linux", ChromeTokens)>>

\* the lists by the languages and the media types they start with
ACCEPT_LANGUAGES ==
    <<"en-US", "en-GB", "de-DE", "de-CH", "fr-FR", "fr-CH", "it-IT", "it-CH",
      "es-ES", "nl-NL", "pt-PT">>

ACCEPT_HEADERS == <<"avif,webp,apng", "webp", "plain", "avif,webp,signed-exchange">>

\* None in the two lists of client hints
NoHint == [brand |-> "None", version |-> 0]

SEC_CH_UA_OPTIONS ==
    <<[brand |-> "Google Chrome", version |-> 120],
      [brand |-> "Google Chrome", version |-> 119],
      [brand |-> "Google Chrome", version |-> 121],
      [brand |-> "Microsoft Edge", version |-> 120],
      NoHint>>

SEC_CH_UA_PLATFORM_OPTIONS == <<"Windows", "macOS", "Linux", "None">>

\* the values random.choice(seq) can return
Choices(seq) == {seq[i] : i \in 1..Len(seq)}

\* variant: every WebKit-derived browser counts as Chromium
is_chrome_based_webkit(user_agent) == "Safari" \in user_agent.tokens

\* "Chrome" in user_agent or "Edg" in user_agent
is_chrome_based(user_agent) ==
    "Chrome" \in user_agent.tokens \/ "Edg" \in user_agent.tokens

\* "Firefox" in user_agent
is_firefox(user_agent) == "Firefox" \in user_agent.tokens

\* the header dicts get_random_headers() can return
get_random_headers ==
    {LET h0 == ("User-Agent" :> user_agent)
               @@ ("Accept" :> accept)
               @@ ("Accept-Language" :> language)
               @@ ("Accept-Encoding" :> "gzip, deflate, br")
               @@ ("Connection" :> "keep-alive")
               @@ ("Upgrade-Insecure-Requests" :> "1")
               @@ ("Sec-Fetch-Dest" :> "document")
               @@ ("Sec-Fetch-Mode" :> "navigate")
               @@ ("Sec-Fetch-Site" :> site)
               @@ ("Sec-Fetch-User" :> "?1")
         h1 == IF is_chrome_based(user_agent)
               THEN set(set(set(h0, "Sec-CH-UA", sec_ch_ua), "Sec-CH-UA-Mobile", "?0"),
                        "Sec-CH-UA-Platform", platform)
               ELSE h0
         h2 == IF is_firefox(user_agent) THEN set(h1, "Sec-GPC", "1") ELSE h1
         h3 == IF dnt THEN set(h2, "DNT", "1") ELSE h2
     IN  IF cache = "absent" THEN h3 ELSE set(h3, "Cache-Control", cache) :
        user_agent \in Choices(USER_AGENTS),
        accept \in Choices(ACCEPT_HEADERS),
        language \in Choices(ACCEPT_LANGUAGES),
        site \in {"none", "same-origin", "cross-site"},
        sec_ch_ua \in Choices(SEC_CH_UA_OPTIONS) \ {NoHint},
        platform \in Choices(SEC_CH_UA_PLATFORM_OPTIONS) \ {"None"},
        dnt \in BOOLEAN,
        cache \in {"absent", "max-age=0", "no-cache"}}

(* Price texts are sequences of tokens: digits, the thousands apostrophe,
   the currency "CHF", a blank, and "x" for any other character. *)
Digits == {"1", "2"}
Tokens == Digits \cup {"apostrophe", "CHF", " ", "x"}

\* the default of price_obj.get('price', 'N/A')
NA == <<"N/A">>

\* the sequences over S of length at most n
SeqUpTo(S, n) == UNION {[1..k -> S] : k \in 0..n}

\* text.replace(tok, "")
remove(text, tok) == SelectSeq(text, LAMBDA c : c # tok)

RECURSIVE strip(_)
\* text.strip()
strip(text) ==
    IF text = <<>> THEN text
    ELSE IF Head(text) = " " THEN strip(Tail(text))
    ELSE IF text[Len(text)] = " " THEN strip(SubSeq(text, 1, Len(text) - 1))
    ELSE text

RECURSIVE int(_)
\* int(text) for a text of decimal digits
int(text) ==
    IF text = <<>> THEN 0
    ELSE 10 * int(SubSeq(text, 1, Len(text) - 1))
         + (IF text[Len(text)] = "1" THEN 1 ELSE 2)

\* int() raises ValueError unless the text is a non-empty run of digits
is_int_literal(text) == text # <<>> /\ \A i \in 1..Len(text) : text[i] \in Digits

\* variant: the thousands apostrophe is not removed
clean_price_keeps_apostrophe(price_text) == strip(remove(price_text, "CHF"))

\* price_text.replace("’", "").replace("CHF", "").strip()
clean_price(price_text) == strip(remove(remove(price_text, "apostrophe"), "CHF"))

\* price_int of one result
price_int(price_text) ==
    IF price_text = <<>> \/ price_text = NA THEN 0
    ELSE IF is_int_literal(clean_price(price_text)) THEN int(clean_price(price_text))
    ELSE 0

\* price_text of one result: 'price', else 'discountedPrice', else 'N/A'
price_text_of(result) ==
    IF result.price = NA THEN result.discountedPrice ELSE result.price

\* the loop over search_results: results of another type are skipped, every
\* StaySearchResult appends one listing
listings_of(search_results) ==
    LET stays == SelectSeq(search_results,
                           LAMBDA result : result.typename = "StaySearchResult")
    IN  [i \in 1..Len(stays) |->
            [price_text |-> price_text_of(stays[i]),
             price_int |-> price_int(price_text_of(stays[i]))]]

\* the results a page is parsed with: one result with any price text, with or
\* without a discounted price, alone or followed by one of two other results
SearchResults ==
    LET first == [typename : {"StaySearchResult", "SplitStaysResult"},
                  price : SeqUpTo(Tokens, MaxText) \cup {NA},
                  discountedPrice : {NA, <<"2", "1", " ", "CHF">>}]
        second == {[typename |-> "StaySearchResult", price |-> <<"2", " ", "CHF">>,
                    discountedPrice |-> NA],
                   [typename |-> "SplitStaysResult", price |-> NA,
                    discountedPrice |-> NA]}
    IN  {<<>>} \cup {<<a>> : a \in first} \cup {<<a, b>> : a \in first, b \in second}

(* The sections of a product-detail payload.  A payload is given by the form
   of each named section: "absent" (not in the list), "bare" (its data has
   none of the optional sub-fields), "empty_lists" (its list sub-fields are
   there and empty, the others missing) or "full".  Every branch writes the
   field of its own section only, so the order of the sections is left out.
   A field is "default" (the {} / "" / [] of clean_data), "nulls" (set from
   missing sub-fields: None members, empty lists) or "full". *)
SectionIds ==
    {"TITLE_DEFAULT", "PHOTO_TOUR_SCROLLABLE_MODAL", "DESCRIPTION_DEFAULT",
     "AMENITIES_DEFAULT", "REVIEWS_DEFAULT", "LOCATION_DEFAULT", "MEET_YOUR_HOST",
     "POLICIES_DEFAULT"}

Forms == {"absent", "bare", "empty_lists", "full"}

\* the key of clean_data the branch of a section writes
field_of(s_id) ==
    CASE s_id = "TITLE_DEFAULT" -> "basic_info"
      [] s_id = "PHOTO_TOUR_SCROLLABLE_MODAL" -> "photos"
      [] s_id = "DESCRIPTION_DEFAULT" -> "description"
      [] s_id = "AMENITIES_DEFAULT" -> "amenities"
      [] s_id = "REVIEWS_DEFAULT" -> "reviews"
      [] s_id = "LOCATION_DEFAULT" -> "location"
      [] s_id = "MEET_YOUR_HOST" -> "host"
      [] s_id = "POLICIES_DEFAULT" -> "house_rules"

\* the sections whose branch builds a list from a list sub-field read with
\* .get(name, []): photos is assigned the list, amenities and house_rules
\* are appended to, so nothing to read leaves the field as it was
ListSections == {"PHOTO_TOUR_SCROLLABLE_MODAL", "AMENITIES_DEFAULT", "POLICIES_DEFAULT"}

\* s_data.get('overviewItems', [{}])[0].get('title'): the default covers the
\* missing key, an empty list has no element 0
host_joined(form) == IF form = "empty_lists" THEN "IndexError" ELSE "nulls"

\* what the branch of section s_id makes of a section of the given form
section_value(s_id, form) ==
    IF form = "absent" THEN "default"
    ELSE IF form = "full" THEN "full"
    ELSE IF s_id \in ListSections THEN "default"
    ELSE IF s_id = "MEET_YOUR_HOST" THEN host_joined(form)
    ELSE "nulls"

\* parse_pdp_sections(pdp_data): clean_data, or the exception a branch raises
parse_pdp_sections(sections) ==
    LET values == [s_id \in SectionIds |-> section_value(s_id, sections[s_id])]
    IN  IF \E s_id \in SectionIds : values[s_id] = "IndexError"
        THEN [raised |-> "IndexError",
              clean_data |-> [f \in {field_of(s_id) : s_id \in SectionIds} |-> "default"]]
        ELSE [raised |-> "",
              clean_data |-> [f \in {field_of(s_id) : s_id \in SectionIds} |->
                                 values[CHOOSE s_id \in SectionIds : field_of(s_id) = f]]]

\* parse_pdp_sections(pdp_data) returns or raises
ParsePdpSections ==
    /\ fn_in.fn = "parse_pdp_sections"
    /\ fn_out = NoFn
    /\ fn_out' = [fn |-> "parse_pdp_sections",
                  result |-> parse_pdp_sections(fn_in.sections)]
    /\ UNCHANGED <<proxies, proxy_cooldown_until, now, upstream, call, runVars,
                   marked_at, returned, cancel, fn_in, filter_request>>

\* build_airbnb_url(...) returns
BuildAirbnbUrl ==
    /\ fn_in.fn = "build_airbnb_url"
    /\ fn_out = NoFn
    /\ fn_out' = [fn |-> "build_airbnb_url", params |-> build_airbnb_url(fn_in)]
    /\ UNCHANGED <<proxies, proxy_cooldown_until, now, upstream, call, runVars,
                   marked_at, returned, cancel, fn_in, filter_request>>

\* get_random_headers() returns
GetRandomHeaders ==
    /\ fn_in.fn = "get_random_headers"
    /\ fn_out = NoFn
    /\ \E h \in get_random_headers :
         fn_out' = [fn |-> "get_random_headers", headers |-> h]
    /\ UNCHANGED <<proxies, proxy_cooldown_until, now, upstream, call, runVars,
                   marked_at, returned, cancel, fn_in, filter_request>>

\* parse_airbnb_response(html) returns the listings of a decodable page
ParseListings ==
    /\ fn_in.fn = "parse_airbnb_response"
    /\ fn_out = NoFn
    /\ fn_out' = [fn |-> "parse_airbnb_response",
                  listings |-> listings_of(fn_in.search_results)]
    /\ UNCHANGED <<proxies, proxy_cooldown_until, now, upstream, call, runVars,
                   marked_at, returned, cancel, fn_in, filter_request>>

\* one call of one of the four functions
InitFn ==
    /\ pc = [r \in AllRuns |-> "off"]
    /\ max_pages = [r \in AllRuns |-> 0]
    /\ upstream = [outcomes |-> {"ok"}, bodies |-> {NoBody}, error_bodies |-> {NoBody}]
    /\ InitRest
    /\ proxies = Pool(0)
    /\ fn_in \in BuildInputs
                 \cup {[fn |-> "get_random_headers"]}
                 \cup {[fn |-> "parse_airbnb_response", search_results |-> sr] :
                          sr \in SearchResults}
                 \cup {[fn |-> "parse_pdp_sections", sections |-> ss] :
                          ss \in [SectionIds -> Forms]}
    /\ fn_out = NoFn

NextFn ==
    \/ BuildAirbnbUrl
    \/ GetRandomHeaders
    \/ ParseListings
    \/ ParsePdpSections

SpecFn == InitFn /\ [][NextFn]_vars

----------------------------------------------------------------------------
(* Specifications *)

PoolStep ==
    \/ CallGetHealthyProxy
    \/ CallMarkFailed
    \/ GetProxyStatus
    \/ ResetFailures

\* the ProxyManager alone: its three calls and the clock
NextPool ==
    \/ Tick
    \/ PoolStep

SpecPool == InitPool /\ [][NextPool]_vars

\* the worker process: failures reported by earlier jobs, the clock and one
\* search_airbnb run
Next ==
    \/ Tick
    \/ CallMarkFailed
    \/ \E r \in Runs : RunStep(r)

Spec == Init /\ [][Next]_vars

\* the microservice process: the clock and one search_listings run
NextMs ==
    \/ Tick
    \/ MsStep

SpecMs == InitMs /\ [][NextMs]_vars

\* either process
NextAll ==
    \/ Tick
    \/ \E r \in Runs : RunStep(r)
    \/ MsStep

SpecAll == InitAll /\ [][NextAll]_vars

\* the scheduler asks the running job to stop.  search_airbnb takes no such
\* signal and reads none, so the step changes nothing the run looks at.
Cancel ==
    /\ ~cancel
    /\ \E r \in Runs : pc[r] \notin {"idle", "off", "done"}
    /\ cancel' = TRUE
    /\ call' = NoCall
    /\ UNCHANGED <<proxies, proxy_cooldown_until, now, upstream, runVars, marked_at,
                   returned, fn_in, filter_request, fn_out>>

\* one search job and a scheduler that may ask it to stop
NextCancel ==
    \/ Tick
    \/ Cancel
    \/ \E r \in Runs : RunStep(r)

SpecCancel == InitCancel /\ [][NextCancel]_vars

\* search_worker up to the search: max_pages = page_end - page_start + 1 and
\* update_filter_request_progress(user_id, destination_id, 0, max_pages),
\* which inserts the row or overwrites both of its columns
JobBegin ==
    /\ pc["w1"] = "job"
    /\ LET pages == fn_in.page_end - fn_in.page_start + 1
       IN  /\ max_pages' = [max_pages EXCEPT !["w1"] = pages]
           /\ filter_request' = <<[pages_fetched |-> 0, pages_total |-> pages]>>
    /\ pc' = [pc EXCEPT !["w1"] = "idle"]
    /\ call' = NoCall
    /\ UNCHANGED <<proxies, proxy_cooldown_until, now, upstream, page, proxy,
                   current_cursor, total_listing_count, response, mf_now, marks,
                   marked_at, reqs, emits, slept, msVars, headers, returned, cancel,
                   fn_in, fn_out>>

\* search_worker after search_airbnb has returned:
\* update_filter_request_progress(user_id, destination_id, max_pages), an
\* UPDATE of pages_fetched; then the task returns its message
JobEnd ==
    /\ fn_in.fn = "search_worker"
    /\ pc["w1"] = "done"
    /\ filter_request' = [i \in 1..Len(filter_request) |->
                             [filter_request[i] EXCEPT !.pages_fetched = max_pages["w1"]]]
    /\ returned' = [returned EXCEPT !["w1"] = Returns(total_listing_count["w1"])]
    /\ pc' = [pc EXCEPT !["w1"] = "reported"]
    /\ call' = NoCall
    /\ UNCHANGED <<proxies, proxy_cooldown_until, now, upstream, max_pages, page, proxy,
                   current_cursor, total_listing_count, response, mf_now, marks,
                   marked_at, reqs, emits, slept, msVars, headers, cancel,
                   fn_in, fn_out>>

\* a search job of the worker: its progress reports around the search
NextJob ==
    \/ Tick
    \/ JobBegin
    \/ \E r \in Runs : RunStep(r)
    \/ JobEnd

SpecJob == InitJob /\ [][NextJob]_vars

\* one single-request call, after failures reported by earlier jobs
NextOps ==
    \/ Tick
    \/ CallMarkFailed
    \/ OpStep

SpecOps == InitOps /\ [][NextOps]_vars

\* two runs sharing the ProxyManager; the clock and the runs only
NextConc ==
    \/ Tick
    \/ \E r \in Runs : RunStep(r)

SpecConc == InitConc /\ [][NextConc]_vars

----------------------------------------------------------------------------
(* Properties *)

RECURSIVE SumRet(_)
SumRet(em) == IF em = <<>> THEN 0 ELSE em[1].ret + SumRet(Tail(em))

Max(a, b) == IF a >= b THEN a ELSE b

\* a get_healthy_proxy call has just returned
Called == call.strategy \in Strategies

\* endpoint p was cooling (now < expiry) when that call was made
CoolingAtCall(p) == p \in DOMAIN call.cd /\ call.t < call.cd[p]

C2_NoneIffAllCooling ==
    Called =>
        LET healthy == {proxies[i] : i \in {j \in 1..Len(proxies) : ~CoolingAtCall(proxies[j])}}
        IN  /\ (call.result = NoneDict) <=> (healthy = {})
            /\ healthy # {} =>
                  /\ call.result.https \in healthy
                  /\ call.result.http = call.result.https

C2_Witness ==
    /\ Called
    /\ Len(proxies) = 2
    /\ CoolingAtCall(1)
    /\ ~CoolingAtCall(2)
    /\ call.result = [http |-> 2, https |-> 2]

\* request i of run r went through a proxy and failed with an exception of
\* the class the first except clause catches
ProxiedFailure(r, i) ==
    /\ reqs[r][i].proxy # NoneDict
    /\ reqs[r][i].outcome \in {"ProxyError", "ConnectTimeout", "ConnectionError"}

\* C3: in search_airbnb, after a proxied page request fails with a retryable
\* network failure the proxy is marked failed and exactly one more request is
\* issued for the same page and cursor, without proxy; if that one fails too,
\* the run issues no further request.
C3_RetryOnceDirect ==
    \A r \in Runs : \A i \in 1..Len(reqs[r]) :
        ProxiedFailure(r, i) =>
            /\ i = Len(reqs[r]) => pc[r] \in {"mark_read", "mark_write", "retry_send"}
            /\ pc[r] \notin {"mark_read", "mark_write"} =>
                  marks[r] = <<reqs[r][i].proxy.https>>
            /\ i < Len(reqs[r]) =>
                  /\ reqs[r][i + 1].page = reqs[r][i].page
                  /\ reqs[r][i + 1].cursor = reqs[r][i].cursor
                  /\ reqs[r][i + 1].proxy = NoneDict
                  /\ \A j \in 1..Len(reqs[r]) :
                        reqs[r][j].page = reqs[r][i].page => j \in {i, i + 1}
                  /\ reqs[r][i + 1].outcome \notin {"ok", "pending"} =>
                        /\ Len(reqs[r]) = i + 1
                        /\ pc[r] = "done"

C3_Witness ==
    /\ Len(reqs["w1"]) = 3
    /\ ProxiedFailure("w1", 2)
    /\ reqs["w1"][3].outcome = "ReadTimeout"
    /\ pc["w1"] = "done"

\* C4: whatever ends a search_airbnb run, the total it returns is the sum of
\* the sink's returned counts over exactly the pages parsed successfully;
\* a 2-page run with 18 listings + cursor then 5 listings and no cursor
\* completes 2 pages and returns 23.
C4_TotalIsSumOfEmitted ==
    \A r \in Runs : pc[r] = "done" =>
        /\ total_listing_count[r] = SumRet(emits[r])
        /\ Len(emits[r]) =
              Cardinality({i \in 1..Len(reqs[r]) : reqs[r][i].parse = "ok"})
        /\ ( /\ max_pages[r] = 2
             /\ Len(emits[r]) = 2
             /\ emits[r][1].ret = 18 /\ emits[r][1].next_cursor # None
             /\ emits[r][2].ret = 5 /\ emits[r][2].next_cursor = None )
           => total_listing_count[r] = 23

C4_Witness ==
    /\ pc["w1"] = "done"
    /\ max_pages["w1"] = 2
    /\ Len(emits["w1"]) = 2
    /\ emits["w1"][1].ret = 18 /\ emits["w1"][1].next_cursor # None
    /\ emits["w1"][2].ret = 5 /\ emits["w1"][2].next_cursor = None
    /\ total_listing_count["w1"] = 23

\* C5: in search_airbnb a non-2xx status on a page request, proxied or direct,
\* ends the run at once: no retry, no mark_failed for it, no later page.
C5_BadStatusEndsRun ==
    \A r \in Runs : \A i \in 1..Len(reqs[r]) :
        reqs[r][i].outcome = "HTTPError" =>
            /\ i = Len(reqs[r])
            /\ pc[r] = "done"
            /\ reqs[r][i].proxy # NoneDict => marks[r] = <<>>

C5_Witness ==
    /\ max_pages["w1"] = 2
    /\ Len(reqs["w1"]) = 1
    /\ reqs["w1"][1].proxy # NoneDict
    /\ reqs["w1"][1].outcome = "HTTPError"

\* C6: once a successfully parsed page carries no next-page cursor the run
\* is over: no further request, even with page budget left.
C6_NoCursorEndsRun ==
    \A r \in Runs : \A i \in 1..Len(emits[r]) :
        emits[r][i].next_cursor = None =>
            /\ i = Len(emits[r])
            /\ Len(reqs[r]) = emits[r][i].nreq
            /\ pc[r] = "done"

C6_Witness ==
    /\ max_pages["w1"] = 2
    /\ Len(emits["w1"]) = 1
    /\ emits["w1"][1].next_cursor = None
    /\ pc["w1"] = "done"

\* C7: a search run (search_airbnb or search_listings) never completes or
\* requests more pages than max_pages, and a run all of whose pages carried
\* a cursor stops after exactly max_pages pages.
C7_PageBudget ==
    \A r \in AllRuns :
        /\ Len(emits[r]) <= max_pages[r]
        /\ \A i \in 1..Len(reqs[r]) : reqs[r][i].page <= max_pages[r]
        /\ ( /\ pc[r] = "done"
             /\ emits[r] # <<>>
             /\ reqs[r][Len(reqs[r])].parse = "ok"
             /\ \A i \in 1..Len(emits[r]) : emits[r][i].next_cursor # None )
           => /\ Len(emits[r]) = max_pages[r]
              /\ reqs[r][Len(reqs[r])].page = max_pages[r]

C7_Witness ==
    /\ pc["w1"] = "done"
    /\ max_pages["w1"] = 2
    /\ Len(emits["w1"]) = 2
    /\ emits["w1"][2].next_cursor # None

\* C8: when two runs sharing the ProxyManager have both marked the same proxy
\* failed, its cooldown expiry is the later of the two expiries they computed.
C8_NoLostUpdate ==
    \A a \in Runs : \A b \in Runs :
        (a # b /\ marks[a] # <<>> /\ marks[b] # <<>> /\ marks[a][1] = marks[b][1]) =>
            /\ marks[a][1] \in DOMAIN proxy_cooldown_until
            /\ proxy_cooldown_until[marks[a][1]] =
                  Max(mf_now[a], mf_now[b]) + cooldown_seconds

\* C9: an endpoint marked failed at time t is not returned by any call made
\* in [t, t + cooldown); from t + cooldown on it is selectable again with no
\* reset (its entry is dropped by the lookup): the pool is not reported
\* exhausted, round robin returns it when every endpoint listed before it is
\* cooling, and a single-proxy pool returns None before and it after.
C9_CooldownWindow ==
    Called => \A p \in DOMAIN marked_at :
        LET expiry == marked_at[p] + cooldown_seconds
            cooling(q) == q \in DOMAIN marked_at
                          /\ call.t < marked_at[q] + cooldown_seconds
        IN  /\ call.t < expiry =>
                  /\ call.result # [http |-> p, https |-> p]
                  /\ Len(proxies) = 1 => call.result = NoneDict
            /\ call.t >= expiry =>
                  /\ call.result # NoneDict
                  /\ p \notin DOMAIN proxy_cooldown_until
                  /\ (call.strategy = "round_robin" /\ \A q \in 1..(p - 1) : cooling(q))
                        => call.result = [http |-> p, https |-> p]
                  /\ Len(proxies) = 1 => call.result = [http |-> p, https |-> p]

C9_Witness ==
    /\ Called
    /\ Len(proxies) = 1
    /\ 1 \in DOMAIN marked_at
    /\ call.t >= marked_at[1] + cooldown_seconds
    /\ call.result = [http |-> 1, https |-> 1]

\* C10: the sink is invoked exactly once for each successfully parsed page,
\* in page order, in the step that parses the page and so before the next
\* page is requested; never for a page whose fetch or parse failed.
C10_SinkOncePerParsedPage ==
    \A r \in Runs :
        /\ \A i \in 1..Len(emits[r]) :
              LET e == emits[r][i]
              IN  /\ e.page = i
                  /\ e.nreq \in 1..Len(reqs[r])
                  /\ reqs[r][e.nreq].page = e.page
                  /\ reqs[r][e.nreq].outcome = "ok"
                  /\ reqs[r][e.nreq].parse = "ok"
        /\ \A j \in 1..Len(reqs[r]) :
              /\ reqs[r][j].parse = "ok" =>
                    \E i \in 1..Len(emits[r]) : emits[r][i].nreq = j
              /\ reqs[r][j].page > 1 =>
                    \E i \in 1..Len(emits[r]) :
                        /\ emits[r][i].page = reqs[r][j].page - 1
                        /\ emits[r][i].nreq < j

C10_Witness ==
    /\ Len(reqs["w1"]) = 3
    /\ Len(emits["w1"]) = 2
    /\ emits["w1"][2].nreq = 3
    /\ reqs["w1"][1].outcome = "ConnectionError"

\* no request of run r before its i-th failed on a proxy
NoProxyFailureBefore(r, i) == \A j \in 1..(i - 1) : ~ProxiedFailure(r, j)

C12_FailThenDirectSuccess ==
    \A r \in Runs :
        /\ Len(marks[r]) <= 1
        /\ \A i \in 1..(Len(reqs[r]) - 1) :
              (ProxiedFailure(r, i) /\ reqs[r][i + 1].outcome = "ok") =>
                  /\ marks[r] = <<reqs[r][i].proxy.https>>
                  /\ \A j \in (i + 1)..Len(reqs[r]) : reqs[r][j].proxy = NoneDict
                  /\ total_listing_count[r] = SumRet(emits[r])
                  /\ reqs[r][i + 1].parse = "ok" =>
                        \E k \in 1..Len(emits[r]) :
                            /\ emits[r][k].nreq = i + 1
                            /\ emits[r][k].page = reqs[r][i].page
                            /\ ( /\ emits[r][k].next_cursor # None
                                 /\ emits[r][k].page < max_pages[r]
                                 /\ pc[r] = "done" )
                               => Len(reqs[r]) > i + 1

C12_Witness ==
    /\ Len(reqs["w1"]) = 3
    /\ ProxiedFailure("w1", 1)
    /\ reqs["w1"][2].outcome = "ok"
    /\ reqs["w1"][3].page = 2
    /\ reqs["w1"][3].outcome = "ok"
    /\ Len(emits["w1"]) = 2
    /\ emits["w1"][1].ret = 18
    /\ marks["w1"] = <<reqs["w1"][1].proxy.https>>
    /\ pc["w1"] = "done"

\* C13: in search_airbnb every network-, connection- or timeout-class failure
\* of a proxied page request (proxy error, connection error, connect timeout,
\* read timeout) makes the run mark the proxy failed and retry the page once
\* without proxy; none of them ends the run without that retry.
C13_TimeoutClassRetried ==
    \A r \in Runs : \A i \in 1..Len(reqs[r]) :
        ( /\ reqs[r][i].proxy # NoneDict
          /\ reqs[r][i].outcome \in
                {"ProxyError", "ConnectTimeout", "ConnectionError", "ReadTimeout"} )
        => /\ i = Len(reqs[r]) => pc[r] \in {"mark_read", "mark_write", "retry_send"}
           /\ i < Len(reqs[r]) =>
                 /\ reqs[r][i + 1].page = reqs[r][i].page
                 /\ reqs[r][i + 1].proxy = NoneDict

\* return total_listing_count: all that search_airbnb hands back to its caller
search_airbnb_result(r) == total_listing_count[r]

\* why the finished run r stopped, read off its history
TerminalReason(r) ==
    IF reqs[r] = <<>> THEN "budget-reached"
    ELSE IF reqs[r][Len(reqs[r])].outcome # "ok" THEN "fatal-error:network"
    ELSE IF reqs[r][Len(reqs[r])].parse # "ok" THEN "fatal-error:format"
    ELSE IF emits[r][Len(emits[r])].next_cursor = None THEN "exhausted-cursor"
    ELSE "budget-reached"

\* the three kinds of end a result has to tell apart
ReasonKind(r) ==
    IF TerminalReason(r) \in {"fatal-error:network", "fatal-error:format"}
    THEN "fatal-error" ELSE TerminalReason(r)

\* C14: the result of a search run tells how the run ended: two finished
\* runs that ended for different reasons (cursor exhausted, page budget
\* reached with a cursor still present, fatal error) never return the same
\* result.
C14_ResultTellsReason ==
    \A a \in Runs : \A b \in Runs :
        ( /\ pc[a] = "done"
          /\ pc[b] = "done"
          /\ search_airbnb_result(a) = search_airbnb_result(b) )
        => ReasonKind(a) = ReasonKind(b)

\* C15: parse_airbnb_response answers a document without the script element
\* data-deferred-state-0, and one whose script text is not JSON, with an error
\* value each, different from one another and never a listing list: no such
\* page reaches the sink.
C15_ParserErrorsExplicit ==
    \A r \in AllRuns : \A i \in 1..Len(reqs[r]) :
        /\ reqs[r][i].doc = "no_script" => reqs[r][i].parse = "no_script"
        /\ reqs[r][i].doc = "not_json" => reqs[r][i].parse = "bad_json"
        /\ reqs[r][i].doc \in {"no_script", "not_json"} =>
              /\ reqs[r][i].parse # "ok"
              /\ \A k \in 1..Len(emits[r]) : emits[r][k].nreq # i

C15_Witness ==
    /\ Len(reqs["w1"]) = 2
    /\ reqs["w1"][1].parse = "ok"
    /\ reqs["w1"][2].doc = "not_json"
    /\ reqs["w1"][2].parse = "bad_json"
    /\ Len(emits["w1"]) = 1
    /\ pc["w1"] = "done"

\* C16: a page whose script and JSON are there but whose results sub-path is
\* missing is reported by the parser as a format error; search_airbnb does
\* not hand it to the sink as a valid empty page.
C16_MissingSubPathIsError ==
    \A r \in Runs : \A i \in 1..Len(reqs[r]) :
        reqs[r][i].doc = "no_results_path" =>
            /\ reqs[r][i].parse # "ok"
            /\ \A k \in 1..Len(emits[r]) : emits[r][k].nreq # i

\* request i of run r got a response the parser answered with an error value
FormatError(r, i) == reqs[r][i].parse \in {"no_script", "bad_json"}

\* in search_airbnb a format error on a page ends the run on the spot:
\* nothing is emitted for the page and no further request is issued
FormatErrorAborts ==
    \A r \in Runs : \A i \in 1..Len(reqs[r]) :
        FormatError(r, i) =>
            /\ i = Len(reqs[r])
            /\ pc[r] = "done"
            /\ \A k \in 1..Len(emits[r]) : emits[r][k].page # reqs[r][i].page

\* C17: a format error on page N aborts search_airbnb at once (nothing
\* emitted for page N, no later request), and the outcome of a run stopped
\* by a format error differs from the outcome of a run stopped by a network
\* failure.
C17_FormatErrorAbortsAndShows ==
    /\ FormatErrorAborts
    /\ \A a \in Runs : \A b \in Runs :
          ( /\ pc[a] = "done"
            /\ pc[b] = "done"
            /\ TerminalReason(a) = "fatal-error:format"
            /\ TerminalReason(b) = "fatal-error:network" )
          => search_airbnb_result(a) # search_airbnb_result(b)

\* the endpoints that were not cooling when the recorded call was entered
AvailableAtCall == {p \in {proxies[i] : i \in 1..Len(proxies)} : ~CoolingAtCall(p)}

\* C18: with strategy round_robin and at least two endpoints available, two
\* get_healthy_proxy calls in a row (no mark_failed and no clock tick in
\* between) return different endpoints.
C18_RoundRobinRotates ==
    ( /\ call.strategy = "round_robin"
      /\ call.prev_strategy = "round_robin"
      /\ Cardinality(AvailableAtCall) >= 2 )
    => call.result # call.prev_result

\* C19: mark_failed on an endpoint leaves one cooldown entry for it, with
\* expiry now + cooldown_seconds, which is not earlier than the expiry it had
\* when it was already cooling; every other entry of the dict is as before,
\* and no step changes the endpoint list.
C19_MarkFailedExtends ==
    /\ [](call.strategy = "mark_failed" =>
            LET p == proxy_url_from_dict(call.result)
            IN  /\ DOMAIN proxy_cooldown_until = DOMAIN call.cd \cup {p}
                /\ proxy_cooldown_until[p] = call.t + cooldown_seconds
                /\ p \in DOMAIN call.cd => proxy_cooldown_until[p] >= call.cd[p]
                /\ \A q \in DOMAIN call.cd \ {p} : proxy_cooldown_until[q] = call.cd[q])
    /\ [][proxies' = proxies]_vars

C19_Witness ==
    /\ call.strategy = "mark_failed"
    /\ call.result = [http |-> 1, https |-> 1]
    /\ 1 \in DOMAIN call.cd
    /\ call.t < call.cd[1]
    /\ proxy_cooldown_until[1] > call.cd[1]
    /\ 2 \in DOMAIN call.cd
    /\ proxy_cooldown_until[2] = call.cd[2]

\* C20: reading the pool status (has_proxies, proxy_count,
\* cooldown_active_count) leaves the cooldown dict as it was.
C20_StatusReadOnly ==
    call.strategy = "status" => proxy_cooldown_until = call.cd

----------------------------------------------------------------------------
(* The price-range probe and the listing-detail fetch *)

Probes == {"probe", "ms_probe"}

\* C21: the price-range probe never raises to its caller: on every path it
\* returns a pair, and when a request failed for good (network failure or
\* non-2xx status, through the proxy or direct) or the document has no anchor
\* script, no decodable JSON or no price histogram, the pair is (0, 25000).
C21_ProbeNeverRaises ==
    \A r \in Probes :
        /\ returned[r].kind # "raised"
        /\ pc[r] = "done" =>
             /\ returned[r].kind = "value"
             /\ (\/ reqs[r][Len(reqs[r])].outcome # "ok"
                 \/ reqs[r][Len(reqs[r])].doc # "histogram")
                => returned[r].value = Sentinel

\* C22: a listing-detail fetch goes through a healthy proxy when the pool has
\* one, a second request exists only as the direct retry after the proxied
\* one failed and its proxy was marked, and there are never more than two
\* requests.
C22_FetchProxyThenOneDirectRetry ==
    \A r \in {"fetch", "ms_fetch"} :
        /\ Len(reqs[r]) <= 2
        /\ (Len(reqs[r]) >= 1 /\ Len(proxies) > 0 /\ proxy_cooldown_until = <<>>
              /\ marks[r] = <<>>)
             => reqs[r][1].proxy # NoneDict
        /\ Len(reqs[r]) = 2 =>
             /\ reqs[r][1].proxy # NoneDict
             /\ reqs[r][1].outcome # "ok"
             /\ marks[r] = <<proxy_url_from_dict(reqs[r][1].proxy)>>
             /\ reqs[r][2].proxy = NoneDict

\* C23: no call can hang: every HTTP request of a search run, a price probe
\* or a listing-detail fetch carries the fixed timeout, the number of requests
\* of a call is bounded (two per page of a search, one per proxy plus one
\* otherwise) and so is the number of inter-page sleeps.
C23_EveryCallBounded ==
    \A r \in AllRuns :
        /\ \A i \in 1..Len(reqs[r]) : reqs[r][i].timeout = request_timeout
        /\ Len(reqs[r]) <= 2 * max_pages[r] + Len(proxies) + 1
        /\ slept[r] <= max_pages[r]

----------------------------------------------------------------------------
(* Cancellation and pacing of a search run *)

\* C24: once the external cancellation signal is set, the search run sends
\* no further request.
C24_NoRequestAfterCancel ==
    \A r \in Runs : \A i \in 1..Len(reqs[r]) : ~reqs[r][i].after_cancel

\* C25: a search run has at most one request in flight, the newest one; the
\* requests of page k are sent after exactly k - 1 sleeps, so a sleep lies
\* between the requests of consecutive pages; a run sleeps only when the page
\* gave a cursor and the budget is not exhausted, hence never after its last
\* page.
C25_OneInFlightSleepBetweenPages ==
    \A r \in Runs :
        /\ \A i \in 1..Len(reqs[r]) :
             /\ reqs[r][i].outcome = "pending" => i = Len(reqs[r])
             /\ reqs[r][i].page <= page[r]
             /\ i > 1 => reqs[r][i].page \in {reqs[r][i-1].page, reqs[r][i-1].page + 1}
        /\ page[r] >= 1 => slept[r] = page[r] - 1
        /\ pc[r] = "sleep" => current_cursor[r] # None /\ page[r] < max_pages[r]
        /\ pc[r] = "done" /\ Len(reqs[r]) >= 1 =>
             /\ slept[r] = reqs[r][Len(reqs[r])].page - 1
             /\ slept[r] < max_pages[r]

\* a run of two pages has sent the request of its second page after one sleep
\* and has finished
C25_Witness ==
    /\ pc["w1"] = "done"
    /\ Len(reqs["w1"]) >= 2
    /\ reqs["w1"][Len(reqs["w1"])].page = 2
    /\ slept["w1"] = 1

----------------------------------------------------------------------------
(* The query builder *)

\* a call of build_airbnb_url has returned
Built == fn_out.fn = "build_airbnb_url"

\* the filter keys the call was given a value for
FilterKeysGiven ==
    {k \in {"price_min", "price_max", "room_type", "min_bedrooms", "min_beds",
            "min_bathrooms"} : fn_in[k] # None}
    \cup (IF fn_in.amenities # <<>> THEN {"amenities"} ELSE {})

\* the number of filter values the call was given: one per scalar filter and
\* one per amenity
FilterValuesGiven ==
    Cardinality(FilterKeysGiven \ {"amenities"}) + Len(fn_in.amenities)

\* absent without a filter, else "true" exactly when n > 1
FlagFollows(n) ==
    IF FilterKeysGiven = {}
    THEN /\ "update_selected_filters" \notin DOMAIN fn_out.params
         /\ "selected_filter_order[]" \notin DOMAIN fn_out.params
    ELSE fn_out.params["update_selected_filters"] = (IF n > 1 THEN "true" ELSE "false")

\* C26: without optional filter update_selected_filters and
\* selected_filter_order are absent; with exactly one distinct filter key the
\* flag is "false", with two or more distinct filter keys it is "true".
C26_FlagCountsFilterKeys ==
    Built => FlagFollows(Cardinality(FilterKeysGiven))

\* C26, as the code has it: the flag is "true" exactly when more than one
\* filter value is listed in selected_filter_order, where every amenity counts
\* for itself; without optional filter both parameters are absent.
C26_FlagCountsFilterValues ==
    Built => FlagFollows(FilterValuesGiven)

\* two amenities and no other filter: one filter key, and the flag is "true"
C26_Witness ==
    /\ Built
    /\ FilterKeysGiven = {"amenities"}
    /\ Len(fn_in.amenities) = 2
    /\ fn_out.params["update_selected_filters"] = "true"

\* the entries that mirror the filter values found in the query parameters,
\* in the order price_min, price_max, amenities, room_types, min_bedrooms,
\* min_beds, min_bathrooms
MirrorOf(params) ==
    LET scalar(key, name) ==
            IF name \in DOMAIN params
            THEN <<[key |-> key, text |-> params[name]]>> ELSE <<>>
        amenities ==
            IF "amenities[]" \in DOMAIN params
            THEN [i \in 1..Len(params["amenities[]"]) |->
                     [key |-> "amenities", text |-> str(params["amenities[]"][i])]]
            ELSE <<>>
        room_types ==
            IF "room_types[]" \in DOMAIN params
            THEN <<[key |-> "room_types", text |-> str(params["room_types[]"])]>>
            ELSE <<>>
    IN  scalar("price_min", "price_min") \o scalar("price_max", "price_max")
        \o amenities \o room_types
        \o scalar("min_bedrooms", "min_bedrooms") \o scalar("min_beds", "min_beds")
        \o scalar("min_bathrooms", "min_bathrooms")

\* C27: selected_filter_order[] has exactly one entry key:value per filter
\* value in the query parameters, in the order the filters are set, every
\* filter given is in the parameters, and search_type is filter_change with
\* search_mode regular_search exactly when a filter is given, else
\* search_query.
C27_OrderMirrorsFilters ==
    Built =>
        LET params == fn_out.params
            order == IF "selected_filter_order[]" \in DOMAIN params
                     THEN params["selected_filter_order[]"] ELSE <<>>
        IN  /\ order = MirrorOf(params)
            /\ Len(order) = FilterValuesGiven
            /\ IF FilterKeysGiven # {}
               THEN /\ params["search_type"] = "filter_change"
                    /\ params["search_mode"] = "regular_search"
               ELSE /\ params["search_type"] = "search_query"
                    /\ "search_mode" \notin DOMAIN params

\* every filter given, with two amenities: eight entries in order
C27_Witness ==
    /\ Built
    /\ Cardinality(FilterKeysGiven) = 7
    /\ fn_in.amenities = <<7, 4>>
    /\ Len(fn_out.params["selected_filter_order[]"]) = 8
    /\ fn_out.params["selected_filter_order[]"][3] = entry("amenities", 7)
    /\ fn_out.params["selected_filter_order[]"][8] = entry("min_bathrooms", 1)

----------------------------------------------------------------------------
(* The header profiles *)

\* a call of get_random_headers has returned
HeadersMade == fn_out.fn = "get_random_headers"

\* the client-hint headers
ClientHints == {"Sec-CH-UA", "Sec-CH-UA-Mobile", "Sec-CH-UA-Platform"}

\* C28: the client hints Sec-CH-UA are in the profile exactly when its
\* User-Agent is Chrome or Edge, Sec-GPC exactly when it is Firefox, and a
\* Safari profile has neither.
C28_HintsByBrowserFamily ==
    HeadersMade =>
        LET h == fn_out.headers
            browser == h["User-Agent"].browser
        IN  /\ \A name \in ClientHints :
                 name \in DOMAIN h <=> browser \in {"Chrome", "Edge"}
            /\ "Sec-GPC" \in DOMAIN h <=> browser = "Firefox"
            /\ browser = "Safari" => DOMAIN h \cap (ClientHints \cup {"Sec-GPC"}) = {}

\* a Safari profile has been produced
C28_Witness ==
    /\ HeadersMade
    /\ fn_out.headers["User-Agent"].browser = "Safari"
    /\ "Sec-Fetch-Site" \in DOMAIN fn_out.headers

\* the brand Sec-CH-UA gives for a browser
BrandOf(browser) == IF browser = "Edge" THEN "Microsoft Edge" ELSE "Google Chrome"

\* C29: in a profile with client hints, Sec-CH-UA names the browser and the
\* major version of the User-Agent, and Sec-CH-UA-Platform its operating
\* system.
C29_HintsMatchUserAgent ==
    (HeadersMade /\ "Sec-CH-UA" \in DOMAIN fn_out.headers) =>
        LET h == fn_out.headers
            user_agent == h["User-Agent"]
        IN  /\ h["Sec-CH-UA"].brand = BrandOf(user_agent.browser)
            /\ h["Sec-CH-UA"].version = user_agent.version
            /\ h["Sec-CH-UA-Platform"] = user_agent.os

----------------------------------------------------------------------------
(* The prices of the listings *)

\* the listing loop has returned
Parsed == fn_out.fn = "parse_airbnb_response"

\* the number of StaySearchResult entries of the page
StayCount ==
    Cardinality({i \in 1..Len(fn_in.search_results) :
                    fn_in.search_results[i].typename = "StaySearchResult"})

\* the digits of a text, in order
digits_of(text) == SelectSeq(text, LAMBDA c : c \in Digits)

\* the value of the first run of digits of a text, 0 when it has no digit
first_digit_run(text) ==
    LET at == {i \in 1..Len(text) : text[i] \in Digits}
    IN  IF at = {} THEN 0
        ELSE LET s == CHOOSE i \in at : \A j \in at : i <= j
                 e == CHOOSE j \in s..Len(text) :
                        /\ \A k \in s..j : text[k] \in Digits
                        /\ j = Len(text) \/ text[j + 1] \notin Digits
             IN  int(SubSeq(text, s, e))

\* a price text the code reads a number from: digits, apostrophes, CHF and
\* blanks only, at least one digit, and no blank between two digits
Readable(text) ==
    /\ \A i \in 1..Len(text) : text[i] \in Digits \cup {"apostrophe", "CHF", " "}
    /\ digits_of(text) # <<>>
    /\ \A i, j, k \in 1..Len(text) :
         (i < j /\ j < k /\ text[i] \in Digits /\ text[k] \in Digits) => text[j] # " "

----------------------------------------------------------------------------
(* Pagination, fallbacks and shared cooldowns of the search runs *)

C33_DirectFallbackForEveryFailure ==
    /\ \A i \in 1..Len(reqs[ms]) :
         reqs[ms][i].parse # "" => reqs[ms][i].outcome = "ok"
    /\ (pc[ms] = "done" /\ Len(reqs[ms]) >= 1
          /\ reqs[ms][Len(reqs[ms])].outcome # "ok")
         => reqs[ms][Len(reqs[ms])].proxy = NoneDict

\* the requests of run r before the i-th that failed on a proxy with a
\* failure of the retryable class
ProxiedFailuresBefore(r, i) ==
    {j \in 1..(i - 1) : /\ reqs[r][j].proxy # NoneDict
                        /\ reqs[r][j].outcome \in ProxyFailureClass}

\* C37: a page request sent without proxy that fails with a retryable
\* network failure is the last request of the run, the run has ended, and no
\* mark_failed was made for it: the marks are those of the proxied failures
\* before it.
C37_DirectFailureEndsRun ==
    \A i \in 1..Len(reqs["w1"]) :
        (reqs["w1"][i].proxy = NoneDict /\ reqs["w1"][i].outcome \in ProxyFailureClass)
        => /\ i = Len(reqs["w1"])
           /\ pc["w1"] = "done"
           /\ Len(marks["w1"]) = Cardinality(ProxiedFailuresBefore("w1", i))

\* the run lost its proxy on page 1, went on without it and ended on a
\* connection failure of page 2
C37_Witness ==
    /\ pc["w1"] = "done"
    /\ Len(reqs["w1"]) = 3
    /\ reqs["w1"][3].page = 2
    /\ reqs["w1"][3].proxy = NoneDict
    /\ reqs["w1"][3].outcome = "ConnectionError"
    /\ Len(marks["w1"]) = 1

\* C38: no page request is sent through an endpoint that is in cooldown at
\* the moment it is sent.
C38_NoRequestThroughCoolingProxy ==
    \A r \in Runs : \A i \in 1..Len(reqs[r]) : ~reqs[r][i].cooling

----------------------------------------------------------------------------
(* get_listing_details of the microservice *)

mf == "ms_fetch"

\* C34: get_listing_details returns a result record on every path: success
\* is true exactly when the last fetch, proxied or direct, got the listing
\* and parsed it.
C34_AlwaysAResultRecord ==
    pc[mf] = "done" =>
        /\ returned[mf].kind = "value"
        /\ returned[mf].value.success = (reqs[mf][Len(reqs[mf])].parse = "ok")

\* the errors of a page that was fetched but lacks the expected structure
StructureMissing ==
    {"Could not find data-deferred-state-0", "Could not locate PDP data in JSON structure"}

\* C35: a proxy is marked failed only for a proxied attempt that failed for a
\* network or HTTP reason, and a proxied attempt whose page lacks the
\* expected structure is the last request: no mark, no further proxy.
C35_StructureErrorKeepsProxy ==
    /\ Len(marks[mf]) <=
          Cardinality({i \in 1..Len(reqs[mf]) :
                          reqs[mf][i].proxy # NoneDict /\ reqs[mf][i].outcome # "ok"})
    /\ \A i \in 1..Len(reqs[mf]) :
         (reqs[mf][i].proxy # NoneDict /\ reqs[mf][i].parse \in StructureMissing)
         => i = Len(reqs[mf])

----------------------------------------------------------------------------
(* The progress search_worker reports *)

\* C36: every reported row has pages_total = page_end - page_start + 1 and
\* pages_fetched <= pages_total; the row reported before the search has
\* pages_fetched = 0, and the pages_fetched reported after the search does
\* not exceed the number of pages the run completed.
C36_ProgressWithinPagesCompleted ==
    \A i \in 1..Len(filter_request) :
        /\ filter_request[i].pages_total = fn_in.page_end - fn_in.page_start + 1
        /\ filter_request[i].pages_fetched <= filter_request[i].pages_total
        /\ pc["w1"] # "reported" => filter_request[i].pages_fetched = 0
        /\ pc["w1"] = "reported" => filter_request[i].pages_fetched <= Len(emits["w1"])

----------------------------------------------------------------------------
(* The sections of a listing's detail page *)

\* C31: parse_pdp_sections returns a record without error for every subset
\* of the named sections, whether their optional sub-fields are missing or
\* are empty lists, and a section that is not present leaves its field at
\* the empty default.
C31_AnySectionsParse ==
    fn_out.fn = "parse_pdp_sections" =>
        /\ fn_out.result.raised = ""
        /\ \A s_id \in SectionIds :
             fn_in.sections[s_id] = "absent"
             => fn_out.result.clean_data[field_of(s_id)] = "default"

====
